---- MODULE Spec2Model ----
(***************************************************************************)
(* CMSIS-RTOS RTX Event Flags (rtx_evflags.c).                             *)
(*                                                                         *)
(* One Event Flags object, the threads that wait on it, the service call   *)
(* that is in progress, and the queue of deferred post ISR processing.     *)
(* A service call (SVC) runs as a sequence of steps: an interrupt handler  *)
(* may run between two steps.  An interrupt handler's call runs as one     *)
(* step.  The post ISR processing (PendSV) runs when no service call is    *)
(* in progress, before thread code resumes.                                *)
(***************************************************************************)
EXTENDS Integers, Sequences, FiniteSets

\* ---- bounds of the model ----
\* number of flag bits the callers use, out of osRtxEventFlagsLimit: they are
\* the bits 0, 2, 4, ... of the flag word
MaxFlagBits == 2
\* number of threads that call osEventFlagsWait
MaxThreads == 2
\* largest finite timeout, in ticks
MaxTimeout == 1
\* capacity of the post ISR processing queue
MaxPending == 1

\* ---- program constants ----
osRtxEventFlagsLimit == 31
osFlagsWaitAny == 0
osFlagsWaitAll == 1
osFlagsNoClear == 2
osRtxFlagSystemObject == 1
osRtxIdInvalid == 0
osRtxIdEventFlags == 3
osOK == 0
NULL == 0
osError == -1
osErrorTimeout == -2
osErrorResource == -3
osErrorParameter == -4
osErrorISR == -6
osWaitForever == -1

\* ---- uint32_t arithmetic ----
\* A uint32_t is held as the int32_t of the same 32 bits: bit 31 is set
\* exactly in the negative numbers, (uint32_t)osErrorResource is -3.
\* a % 2 is bit 0 and a \div 2 the arithmetic shift right, also below 0.
RECURSIVE And(_, _)
And(a, b) ==
  IF a = 0 \/ b = 0 THEN 0
  ELSE IF a = -1 THEN b
  ELSE IF b = -1 THEN a
  ELSE (a % 2) * (b % 2) + 2 * And(a \div 2, b \div 2)

RECURSIVE Or(_, _)
Or(a, b) ==
  IF a = 0 THEN b
  ELSE IF b = 0 THEN a
  ELSE IF a = -1 \/ b = -1 THEN -1
  ELSE (IF (a % 2) + (b % 2) > 0 THEN 1 ELSE 0) + 2 * Or(a \div 2, b \div 2)

Not32(a) == -1 - a

\* 1U << n, and (1U << n) - 1U, for n up to 31
Bit(n) == IF n = 31 THEN (0 - 2 ^ 30) - 2 ^ 30 ELSE 2 ^ n

LowBits(n) == IF n = 31 THEN (2 ^ 30 - 1) + 2 ^ 30 ELSE 2 ^ n - 1

\* ---- inputs ----
Threads == 1 .. MaxThreads
Masks ==
  {m \in 0 .. (4 ^ MaxFlagBits - 1) :
     \A k \in 0 .. (MaxFlagBits - 1) : (m \div (4 ^ k)) % 4 < 2}
FlagInputs == Masks \cup {Bit(osRtxEventFlagsLimit)}
OptionInputs == {osFlagsWaitAny, osFlagsWaitAll, osFlagsNoClear,
                 osFlagsWaitAll + osFlagsNoClear}
TimeoutInputs == (0 .. MaxTimeout) \cup {osWaitForever}
Contexts == {"thread", "isr"}

\* sizeof(os_event_flags_t): id, state, flags, reserved, name, thread_list,
\* event_flags
CbSize == 16

\* the address of the one control block of the model
EfAddr == 4

\* attr of osEventFlagsNew: no attributes, or a name, cb_mem and cb_size;
\* cb_mem is NULL, the control block or an address inside it
AttrNull == [given |-> FALSE, name |-> NULL, cb_mem |-> NULL, cb_size |-> 0]

AttrInputs ==
  {AttrNull} \cup
  [given : {TRUE}, name : {NULL, 1}, cb_mem : {NULL} \cup (EfAddr .. EfAddr + 3),
   cb_size : {0, CbSize - 1, CbSize, CbSize + 1}]

VARIABLES ef, thr, kernel_running, run, isr_queue, cb_freed, ret, cpu, prim

vars == <<ef, thr, kernel_running, run, isr_queue, cb_freed, ret, cpu, prim>>

\* ---- state ----
\* os_thread_t, the fields the Event Flags functions use.  wait_flags,
\* flags_options and delay are kept while the thread is blocked: nothing reads
\* them after the thread has left the wait list.
ThreadInit ==
  [state |-> "ready", wait_flags |-> 0, flags_options |-> 0, delay |-> 0,
   ret_val |-> 0]

\* no service call and no post processing in progress
RunIdle ==
  [pc |-> "idle", thread |-> NULL, flags |-> 0, options |-> 0, timeout |-> 0,
   event_flags |-> 0, i |-> 0]

\* ret is the record of the last call that returned, as an observer of the
\* calls keeps it, with the event that svcRtxEventFlagsNew recorded; RetOff is
\* its value when no observer is attached
RetInit == [op |-> "New", ctx |-> "thread", val |-> 0,
  evr |-> "none"]

RetOff == [op |-> "off", ctx |-> "thread", val |-> 0,
  evr |-> "none"]

\* cpu holds PRIMASK and the exclusive monitor of the processor; threads and
\* service calls run with interrupts enabled
CpuInit == [primask |-> 0, monitor |-> FALSE]

\* prim is the call of EventFlagsSet, EventFlagsClear or EventFlagsCheck in
\* progress, instruction by instruction: its arguments, the build it was
\* compiled for, and its locals primask, event_flags and val (the value
\* loaded for the read-modify-write); entry is PRIMASK at the call and at the
\* flag word at the instruction where the call took effect (-1 before)
PrimIdle ==
  [pc |-> "idle", op |-> "none", exclusive |-> FALSE, flags |-> 0,
   options |-> 0, primask |-> 0, event_flags |-> 0, val |-> 0, entry |-> 0,
   at |-> -1]

\* The object right after svcRtxEventFlagsNew: its memory is the caller's
\* (flags = 0) or the system's (flags = osRtxFlagSystemObject)
Created(flags) ==
  [id |-> osRtxIdEventFlags, state |-> "Active", flags |-> flags,
   name |-> 1, thread_list |-> <<>>, event_flags |-> 0]

\* a system object, created when the kernel runs
Init ==
  /\ ef = Created(osRtxFlagSystemObject)
  /\ thr = [t \in Threads |-> ThreadInit]
  /\ kernel_running = TRUE
  /\ run = RunIdle
  /\ isr_queue = 0
  /\ cb_freed = FALSE
  /\ ret = RetOff
  /\ cpu = CpuInit
  /\ prim = PrimIdle

\* an object of either kind, created before the kernel is started, with an
\* observer of the calls
InitCalls ==
  /\ \E flags \in {0, osRtxFlagSystemObject} : ef = Created(flags)
  /\ thr = [t \in Threads |-> ThreadInit]
  /\ kernel_running = FALSE
  /\ run = RunIdle
  /\ isr_queue = 0
  /\ cb_freed = FALSE
  /\ ret = RetInit
  /\ cpu = CpuInit
  /\ prim = PrimIdle

\* ---- helper functions ----
\* EventFlagsSet with = in place of |= at line 44
EventFlagsSet_Assign(event_flags, flags) == [word |-> flags, ret |-> flags]

\* word is ef->event_flags after the call, ret the value returned
EventFlagsSet(event_flags, flags) ==
  LET w == Or(event_flags, flags) IN [word |-> w, ret |-> w]

\* EventFlagsClear with line 70 after line 71: it returns the flags after clearing
EventFlagsClear_After(event_flags, flags) ==
  [word |-> And(event_flags, Not32(flags)),
   ret |-> And(event_flags, Not32(flags))]

EventFlagsClear(event_flags, flags) ==
  [word |-> And(event_flags, Not32(flags)), ret |-> event_flags]

\* NotSet with == 0U in place of != flags at lines 100 and 119: osFlagsWaitAll
\* is taken as osFlagsWaitAny
NotSet_Any(event_flags, flags, options) == And(event_flags, flags) = 0

\* the condition of lines 100-101 and 119-120: TRUE when the flags are not set
NotSet(event_flags, flags, options) ==
  \/ And(options, osFlagsWaitAll) # 0 /\ And(event_flags, flags) # flags
  \/ And(options, osFlagsWaitAll) = 0 /\ And(event_flags, flags) = 0

\* EventFlagsCheck that returns the flags asked for in place of the flag word
EventFlagsCheck_Mask(event_flags, flags, options) ==
  IF NotSet(event_flags, flags, options)
  THEN [word |-> event_flags, ret |-> 0]
  ELSE [word |-> IF And(options, osFlagsNoClear) = 0
                 THEN And(event_flags, Not32(flags)) ELSE event_flags,
        ret |-> And(event_flags, flags)]

\* EventFlagsCheck that clears the flags without looking at osFlagsNoClear
EventFlagsCheck_Clears(event_flags, flags, options) ==
  IF NotSet(event_flags, flags, options)
  THEN [word |-> event_flags, ret |-> 0]
  ELSE [word |-> And(event_flags, Not32(flags)), ret |-> event_flags]

\* EventFlagsCheck with line 104 out of the else: the flags are cleared also
\* when they are not all set
EventFlagsCheck_ClearsOnFail(event_flags, flags, options) ==
  IF And(options, osFlagsNoClear) = 0
  THEN [word |-> And(event_flags, Not32(flags)),
        ret |-> IF NotSet(event_flags, flags, options) THEN 0 ELSE event_flags]
  ELSE [word |-> event_flags,
        ret |-> IF NotSet(event_flags, flags, options) THEN 0 ELSE event_flags]

EventFlagsCheck(event_flags, flags, options) ==
  IF And(options, osFlagsNoClear) = 0
  THEN IF NotSet(event_flags, flags, options)
       THEN [word |-> event_flags, ret |-> 0]
       ELSE [word |-> And(event_flags, Not32(flags)), ret |-> event_flags]
  ELSE IF NotSet(event_flags, flags, options)
       THEN [word |-> event_flags, ret |-> 0]
       ELSE [word |-> event_flags, ret |-> event_flags]

\* FlagsInvalid that lets every flags value pass
FlagsInvalid_Never(flags) == FALSE

\* the parameter checks of every call
FlagsInvalid(flags) ==
  And(flags, Not32(LowBits(osRtxEventFlagsLimit))) # 0

HandleInvalid == ef.id # osRtxIdEventFlags

\* ---- the scheduler's services ----
osRtxThreadListPut(list, t) == Append(list, t)

osRtxThreadListRemove(list, t) == SelectSeq(list, LAMBDA x : x # t)

osRtxThreadWaitExit(th, t, ret_val) ==
  [th EXCEPT ![t] = [state |-> "ready", wait_flags |-> 0, flags_options |-> 0,
                     delay |-> 0, ret_val |-> ret_val]]

osRtxThreadWaitEnter(th, t, timeout) ==
  [th EXCEPT ![t].state = "blocked", ![t].delay = timeout]

\* thread code runs: no service call in progress, no post processing pending
ThreadMode == run.pc = "idle" /\ isr_queue = 0

\* the value a call returns to its caller; Spec starts to record with the
\* first return of osEventFlagsDelete, SpecCalls records every return
Return(op, ctx, val) ==
  ret' = IF ret = RetOff /\ op # "Delete"
         THEN RetOff
         ELSE [op |-> op, ctx |-> ctx, val |-> val,
               evr |-> "none"]


\* osRtxThreadGetRunning: the thread that makes a thread-context call
RunningThreads ==
  IF kernel_running THEN {t \in Threads : thr[t].state = "ready"} ELSE {NULL}

\* a value returned to the running thread by osEventFlagsWait
ThreadReturn(th, t, val) ==
  IF t = NULL THEN th ELSE [th EXCEPT ![t].ret_val = val]

\* ---- osKernelStart (the scheduler): thread code starts to run ----
osKernelStart ==
  /\ ThreadMode
  /\ ~kernel_running
  /\ kernel_running' = TRUE
  /\ UNCHANGED <<ef, thr, run, isr_queue, cb_freed, ret, cpu, prim>>

\* ---- Post ISR processing (lines 133-154) ----
\* one iteration of the loop of lines 144-153, on the waiter at position i
\* PostProcessWalk that stops at the first waiter it wakes
PostProcessWalk_First(w) ==
  LET t == w.list[w.i]
      c == EventFlagsCheck(w.word, w.thr[t].wait_flags, w.thr[t].flags_options)
  IN IF c.ret # 0
     THEN [w EXCEPT !.word = c.word,
                    !.list = osRtxThreadListRemove(w.list, t),
                    !.thr = osRtxThreadWaitExit(w.thr, t, c.ret),
                    !.i = Len(w.list)]
     ELSE [w EXCEPT !.word = c.word, !.i = w.i + 1]

PostProcessWalk(w) ==
  LET t == w.list[w.i]
      c == EventFlagsCheck(w.word, w.thr[t].wait_flags, w.thr[t].flags_options)
  IN IF c.ret # 0
     THEN [w EXCEPT !.word = c.word,
                    !.list = osRtxThreadListRemove(w.list, t),
                    !.thr = osRtxThreadWaitExit(w.thr, t, c.ret)]
     ELSE [w EXCEPT !.word = c.word, !.i = w.i + 1]

\* the walk state of the object as the handlers see it
WalkState(event_flags, i) ==
  [word |-> ef.event_flags, list |-> ef.thread_list, thr |-> thr,
   event_flags |-> event_flags, i |-> i]

\* osRtxEventFlagsPostProcess without the test of lines 137-139
osRtxEventFlagsPostProcess_NoState ==
  /\ run.pc = "idle"
  /\ isr_queue > 0
  /\ isr_queue' = isr_queue - 1
  /\ run' = IF ef.id # osRtxIdEventFlags
            THEN RunIdle
            ELSE [RunIdle EXCEPT !.pc = "post_walk", !.i = 1]
  /\ UNCHANGED <<ef, thr, kernel_running, cb_freed, ret, cpu, prim>>

\* PendSV takes one registration off the queue; the dispatcher selects the
\* callback by the object's id, and the callback returns at once on an
\* Inactive object (lines 137-139)
osRtxEventFlagsPostProcess ==
  /\ run.pc = "idle"
  /\ isr_queue > 0
  /\ isr_queue' = isr_queue - 1
  /\ run' = IF ef.id # osRtxIdEventFlags \/ ef.state = "Inactive"
            THEN RunIdle
            ELSE [RunIdle EXCEPT !.pc = "post_walk", !.i = 1]
  /\ UNCHANGED <<ef, thr, kernel_running, cb_freed, ret, cpu, prim>>

osRtxEventFlagsPostProcess_Walk ==
  /\ run.pc = "post_walk"
  /\ run.i <= Len(ef.thread_list)
  /\ LET w == PostProcessWalk(WalkState(0, run.i))
     IN /\ ef' = [ef EXCEPT !.event_flags = w.word, !.thread_list = w.list]
        /\ thr' = w.thr
        /\ run' = [run EXCEPT !.i = w.i]
  /\ UNCHANGED <<kernel_running, isr_queue, cb_freed, ret, cpu, prim>>

osRtxEventFlagsPostProcess_Done ==
  /\ run.pc = "post_walk"
  /\ run.i > Len(ef.thread_list)
  /\ run' = RunIdle
  /\ UNCHANGED <<ef, thr, kernel_running, isr_queue, cb_freed, ret, cpu, prim>>

\* ---- svcRtxEventFlagsNew (lines 161-216) ----
\* memory that holds no object: zeroed
NoObject ==
  [id |-> osRtxIdInvalid, state |-> "Inactive", flags |-> 0, name |-> NULL,
   thread_list |-> <<>>, event_flags |-> 0]

\* lines 198-203: the control block as svcRtxEventFlagsNew initializes it
NewObject(flags, name) ==
  [id |-> osRtxIdEventFlags, state |-> "Active", flags |-> flags,
   name |-> name, thread_list |-> <<>>, event_flags |-> 0]

\* lines 171 and 176: the control block of attr is refused
CbInvalid(attr) ==
  /\ attr.given
  /\ IF attr.cb_mem # NULL
     THEN And(attr.cb_mem, 3) # 0 \/ attr.cb_size < CbSize
     ELSE attr.cb_size # 0

\* NewIn without the cb_size test of line 171
NewIn_AnySize(e, attr, pool, alloc) ==
  IF attr.given /\ attr.cb_mem # NULL /\ And(attr.cb_mem, 3) # 0
  THEN [ef |-> e, ret |-> NULL, evr |-> "InvalidControlBlock",
        asked |-> "none"]
  ELSE IF attr.given /\ attr.cb_mem # NULL
  THEN [ef |-> NewObject(0, attr.name), ret |-> EfAddr, evr |-> "Created",
        asked |-> "none"]
  ELSE IF alloc # NULL
  THEN [ef |-> NewObject(osRtxFlagSystemObject, attr.name), ret |-> alloc,
        evr |-> "Created", asked |-> IF pool THEN "pool" ELSE "heap"]
  ELSE [ef |-> e, ret |-> NULL, evr |-> "NoMemory",
        asked |-> IF pool THEN "pool" ELSE "heap"]

\* the whole function on the memory e: the memory afterwards, the handle
\* returned, the event recorded and the allocator asked; pool tells whether
\* osRtxInfo.mpi.event_flags is set, alloc is the allocator's answer
NewIn(e, attr, pool, alloc) ==
  IF CbInvalid(attr)
  THEN [ef |-> e, ret |-> NULL, evr |-> "InvalidControlBlock",
        asked |-> "none"]
  ELSE IF attr.given /\ attr.cb_mem # NULL
  THEN [ef |-> NewObject(0, attr.name), ret |-> attr.cb_mem,
        evr |-> "Created", asked |-> "none"]
  ELSE IF alloc # NULL
  THEN [ef |-> NewObject(osRtxFlagSystemObject, attr.name), ret |-> alloc,
        evr |-> "Created", asked |-> IF pool THEN "pool" ELSE "heap"]
  ELSE [ef |-> e, ret |-> NULL, evr |-> "NoMemory",
        asked |-> IF pool THEN "pool" ELSE "heap"]

\* the caller owns the memory of the control block and no object lives in it
CallerMemory == ~cb_freed /\ ef.state = "Inactive"

\* the call: the caller passes memory only if it is its own, the allocator
\* hands out the control block only if it is free
svcRtxEventFlagsNew(attr, pool, alloc) ==
  /\ ThreadMode
  /\ (attr.given /\ attr.cb_mem # NULL /\ ~CbInvalid(attr)) => CallerMemory
  /\ alloc # NULL => cb_freed
  /\ LET n == NewIn(ef, attr, pool, alloc)
     IN /\ ef' = n.ef
        /\ cb_freed' = IF n.asked # "none" /\ n.ret # NULL THEN FALSE
                       ELSE cb_freed
        /\ ret' = [op |-> "New", ctx |-> "thread", val |-> n.ret,
                   evr |-> n.evr]
  /\ UNCHANGED <<thr, kernel_running, run, isr_queue, cpu, prim>>

\* osEventFlagsNew from interrupt context (lines 519-521)
isrEventFlagsNew ==
  /\ ret' = [op |-> "New", ctx |-> "isr", val |-> NULL, evr |-> "ErrorISR"]
  /\ UNCHANGED <<ef, thr, kernel_running, run, isr_queue, cb_freed, cpu, prim>>

\* ---- svcRtxEventFlagsGetName (lines 220-238), osEventFlagsGetName ----
svcRtxEventFlagsGetName ==
  /\ ThreadMode
  /\ IF HandleInvalid THEN Return("GetName", "thread", NULL)
     ELSE IF ef.state = "Inactive" THEN Return("GetName", "thread", NULL)
     ELSE Return("GetName", "thread", ef.name)
  /\ UNCHANGED <<ef, thr, kernel_running, run, isr_queue, cb_freed, cpu, prim>>

isrEventFlagsGetName ==
  /\ Return("GetName", "isr", NULL)
  /\ UNCHANGED <<ef, thr, kernel_running, run, isr_queue, cb_freed, cpu, prim>>

\* ---- svcRtxEventFlagsSet (lines 242-287) ----
\* SetChecks without lines 256-260: the object state is not looked at
SetChecks_NoState(e, flags) ==
  IF e.id # osRtxIdEventFlags \/ FlagsInvalid(flags) THEN osErrorParameter
  ELSE 0

\* lines 249-260 (and 455-466 of isrRtxEventFlagsSet): the error the checks
\* return, 0 when they pass
SetChecks(e, flags) ==
  IF e.id # osRtxIdEventFlags \/ FlagsInvalid(flags) THEN osErrorParameter
  ELSE IF e.state = "Inactive" THEN osErrorResource
  ELSE 0

\* lines 249-263: the checks and EventFlagsSet
svcRtxEventFlagsSet(flags) ==
  /\ ThreadMode
  /\ IF SetChecks(ef, flags) # 0
     THEN /\ Return("Set", "thread", SetChecks(ef, flags))
          /\ UNCHANGED <<ef, run>>
     ELSE LET s == EventFlagsSet(ef.event_flags, flags)
          IN /\ ef' = [ef EXCEPT !.event_flags = s.word]
             /\ run' = [RunIdle EXCEPT !.pc = "set_walk", !.event_flags = s.ret,
                                       !.i = 1]
             /\ UNCHANGED ret
  /\ UNCHANGED <<thr, kernel_running, isr_queue, cb_freed, cpu, prim>>

\* SetWalk with event_flags = event_flags0 at line 273: the value to return
\* is the flag word before the auto-clear
SetWalk_Before(w) ==
  LET t == w.list[w.i]
      c == EventFlagsCheck(w.word, w.thr[t].wait_flags, w.thr[t].flags_options)
  IN IF c.ret # 0
     THEN [w EXCEPT !.word = c.word,
                    !.event_flags = c.ret,
                    !.list = osRtxThreadListRemove(w.list, t),
                    !.thr = osRtxThreadWaitExit(w.thr, t, c.ret)]
     ELSE [w EXCEPT !.word = c.word, !.i = w.i + 1]

\* SetWalk that wakes a thread and leaves the flags it waited for
SetWalk_NoConsume(w) ==
  LET t == w.list[w.i]
      c == EventFlagsCheck(w.word, w.thr[t].wait_flags, w.thr[t].flags_options)
  IN IF c.ret # 0
     THEN [w EXCEPT !.list = osRtxThreadListRemove(w.list, t),
                    !.thr = osRtxThreadWaitExit(w.thr, t, c.ret)]
     ELSE [w EXCEPT !.i = w.i + 1]

\* one iteration of the loop of lines 267-281, on the waiter at position i
\* SetWalk that hands the waiter the flags it waited for, not the flag word
SetWalk_Matched(w) ==
  LET t == w.list[w.i]
      c == EventFlagsCheck(w.word, w.thr[t].wait_flags, w.thr[t].flags_options)
  IN IF c.ret # 0
     THEN [w EXCEPT !.word = c.word,
                    !.event_flags =
                       IF And(w.thr[t].flags_options, osFlagsNoClear) = 0
                       THEN And(c.ret, Not32(w.thr[t].wait_flags))
                       ELSE c.ret,
                    !.list = osRtxThreadListRemove(w.list, t),
                    !.thr = osRtxThreadWaitExit(w.thr, t,
                              And(c.ret, w.thr[t].wait_flags))]
     ELSE [w EXCEPT !.word = c.word, !.i = w.i + 1]

\* SetWalk without osRtxThreadListRemove: the woken thread stays in the list
SetWalk_NoRemove(w) ==
  LET t == w.list[w.i]
      c == EventFlagsCheck(w.word, w.thr[t].wait_flags, w.thr[t].flags_options)
  IN IF c.ret # 0
     THEN [w EXCEPT !.word = c.word,
                    !.event_flags =
                       IF And(w.thr[t].flags_options, osFlagsNoClear) = 0
                       THEN And(c.ret, Not32(w.thr[t].wait_flags))
                       ELSE c.ret,
                    !.thr = osRtxThreadWaitExit(w.thr, t, c.ret),
                    !.i = w.i + 1]
     ELSE [w EXCEPT !.word = c.word, !.i = w.i + 1]

SetWalk(w) ==
  LET t == w.list[w.i]
      c == EventFlagsCheck(w.word, w.thr[t].wait_flags, w.thr[t].flags_options)
  IN IF c.ret # 0
     THEN [w EXCEPT !.word = c.word,
                    !.event_flags =
                       IF And(w.thr[t].flags_options, osFlagsNoClear) = 0
                       THEN And(c.ret, Not32(w.thr[t].wait_flags))
                       ELSE c.ret,
                    !.list = osRtxThreadListRemove(w.list, t),
                    !.thr = osRtxThreadWaitExit(w.thr, t, c.ret)]
     ELSE [w EXCEPT !.word = c.word, !.i = w.i + 1]

svcRtxEventFlagsSet_Walk ==
  /\ run.pc = "set_walk"
  /\ run.i <= Len(ef.thread_list)
  /\ LET w == SetWalk(WalkState(run.event_flags, run.i))
     IN /\ ef' = [ef EXCEPT !.event_flags = w.word, !.thread_list = w.list]
        /\ thr' = w.thr
        /\ run' = [run EXCEPT !.event_flags = w.event_flags, !.i = w.i]
  /\ UNCHANGED <<kernel_running, isr_queue, cb_freed, ret, cpu, prim>>

\* lines 282-286: dispatch and return
svcRtxEventFlagsSet_Done ==
  /\ run.pc = "set_walk"
  /\ run.i > Len(ef.thread_list)
  /\ Return("Set", "thread", run.event_flags)
  /\ run' = RunIdle
  /\ UNCHANGED <<ef, thr, kernel_running, isr_queue, cb_freed, cpu, prim>>

\* ---- svcRtxEventFlagsClear (lines 291-314) ----
\* ClearIn with the object state looked at after EventFlagsClear
ClearIn_Late(e, flags) ==
  IF e.id # osRtxIdEventFlags \/ FlagsInvalid(flags)
  THEN [word |-> e.event_flags, ret |-> osErrorParameter]
  ELSE IF e.state = "Inactive"
  THEN [word |-> EventFlagsClear(e.event_flags, flags).word,
        ret |-> osErrorResource]
  ELSE EventFlagsClear(e.event_flags, flags)

\* the new flag word and the value returned
ClearIn(e, flags) ==
  IF e.id # osRtxIdEventFlags \/ FlagsInvalid(flags)
  THEN [word |-> e.event_flags, ret |-> osErrorParameter]
  ELSE IF e.state = "Inactive"
  THEN [word |-> e.event_flags, ret |-> osErrorResource]
  ELSE EventFlagsClear(e.event_flags, flags)

\* osEventFlagsClear calls it directly from interrupt context (line 560)
svcRtxEventFlagsClear(ctx, flags) ==
  /\ ctx = "thread" => ThreadMode
  /\ LET c == ClearIn(ef, flags)
     IN /\ ef' = [ef EXCEPT !.event_flags = c.word]
        /\ Return("Clear", ctx, c.ret)
  /\ UNCHANGED <<thr, kernel_running, run, isr_queue, cb_freed, cpu, prim>>

\* ---- svcRtxEventFlagsGet (lines 318-336) ----
\* the value returned
GetValue(e) ==
  IF e.id # osRtxIdEventFlags THEN 0
  ELSE IF e.state = "Inactive" THEN 0
  ELSE e.event_flags

\* osEventFlagsGet calls it directly from interrupt context (line 572)
svcRtxEventFlagsGet(ctx) ==
  /\ ctx = "thread" => ThreadMode
  /\ Return("Get", ctx, GetValue(ef))
  /\ UNCHANGED <<ef, thr, kernel_running, run, isr_queue, cb_freed, cpu, prim>>

\* ---- svcRtxEventFlagsWait (lines 340-390) ----
\* lines 345-368 and 383-386: the checks and EventFlagsCheck, called by
\* thread t; the new flag word, the value returned, and whether the call goes
\* on to suspend the thread
WaitInThread(e, t, flags, options, timeout) ==
  IF t = NULL
  THEN [word |-> e.event_flags, ret |-> osError, block |-> FALSE]
  ELSE IF e.id # osRtxIdEventFlags \/ FlagsInvalid(flags)
  THEN [word |-> e.event_flags, ret |-> osErrorParameter, block |-> FALSE]
  ELSE IF e.state = "Inactive"
  THEN [word |-> e.event_flags, ret |-> osErrorResource, block |-> FALSE]
  ELSE LET c == EventFlagsCheck(e.event_flags, flags, options)
       IN IF c.ret # 0
          THEN [word |-> c.word, ret |-> c.ret, block |-> FALSE]
          ELSE IF timeout # 0
          THEN [word |-> c.word, ret |-> osErrorTimeout, block |-> TRUE]
          ELSE [word |-> c.word, ret |-> osErrorResource, block |-> FALSE]

svcRtxEventFlagsWait(t, flags, options, timeout) ==
  /\ ThreadMode
  /\ t \in RunningThreads
  /\ LET r == WaitInThread(ef, t, flags, options, timeout)
     IN /\ ef' = [ef EXCEPT !.event_flags = r.word]
        /\ IF r.block
           THEN /\ run' = [RunIdle EXCEPT !.pc = "wait_enter",
                              !.thread = t, !.flags = flags,
                              !.options = options % 256,
                              !.timeout = timeout]
                /\ UNCHANGED <<thr, ret>>
           ELSE /\ Return("Wait", "thread", r.ret)
                /\ thr' = ThreadReturn(thr, t, r.ret)
                /\ UNCHANGED run
  /\ UNCHANGED <<kernel_running, isr_queue, cb_freed, cpu, prim>>

\* lines 373-382: store the flags and options, suspend the thread and put it
\* into the wait list; can_block is the answer of osRtxThreadWaitEnter
svcRtxEventFlagsWait_Enter(can_block) ==
  /\ run.pc = "wait_enter"
  /\ LET t == run.thread
         stored == [thr EXCEPT ![t].wait_flags = run.flags,
                               ![t].flags_options = run.options]
     IN IF can_block
        THEN /\ thr' = ThreadReturn(
                         osRtxThreadWaitEnter(stored, t, run.timeout),
                         t, osErrorTimeout)
             /\ ef' = [ef EXCEPT
                         !.thread_list = osRtxThreadListPut(ef.thread_list, t)]
        ELSE /\ thr' = ThreadReturn(thr, t, osErrorTimeout)
             /\ UNCHANGED ef
  /\ Return("Wait", "thread", osErrorTimeout)
  /\ run' = RunIdle
  /\ UNCHANGED <<kernel_running, isr_queue, cb_freed, cpu, prim>>

\* svcRtxEventFlagsDelete that leaves the object Active while it drains the
\* wait list
svcRtxEventFlagsDelete_Late ==
  /\ ThreadMode
  /\ IF HandleInvalid
     THEN /\ Return("Delete", "thread", osErrorParameter)
          /\ UNCHANGED <<ef, run>>
     ELSE IF ef.state = "Inactive"
     THEN /\ Return("Delete", "thread", osErrorResource)
          /\ UNCHANGED <<ef, run>>
     ELSE /\ run' = [RunIdle EXCEPT !.pc = "delete_unblock"]
          /\ UNCHANGED <<ef, ret>>
  /\ UNCHANGED <<thr, kernel_running, isr_queue, cb_freed, cpu, prim>>

\* ---- svcRtxEventFlagsDelete (lines 394-434) ----
\* lines 398-411: the checks, mark the object as inactive
svcRtxEventFlagsDelete ==
  /\ ThreadMode
  /\ IF HandleInvalid
     THEN /\ Return("Delete", "thread", osErrorParameter)
          /\ UNCHANGED <<ef, run>>
     ELSE IF ef.state = "Inactive"
     THEN /\ Return("Delete", "thread", osErrorResource)
          /\ UNCHANGED <<ef, run>>
     ELSE /\ ef' = [ef EXCEPT !.state = "Inactive"]
          /\ run' = [RunIdle EXCEPT !.pc = "delete_unblock"]
          /\ UNCHANGED ret
  /\ UNCHANGED <<thr, kernel_running, isr_queue, cb_freed, cpu, prim>>

\* lines 394-411 with an interrupt between the supervisor call's entry and
\* its first check: the handler's Set has registered the object, PendSV
\* cannot preempt the supervisor call, and Delete runs before the callback
svcRtxEventFlagsDelete_Preempted ==
  /\ run.pc = "idle"
  /\ isr_queue > 0
  /\ IF HandleInvalid
     THEN /\ Return("Delete", "thread", osErrorParameter)
          /\ UNCHANGED <<ef, run>>
     ELSE IF ef.state = "Inactive"
     THEN /\ Return("Delete", "thread", osErrorResource)
          /\ UNCHANGED <<ef, run>>
     ELSE /\ ef' = [ef EXCEPT !.state = "Inactive"]
          /\ run' = [RunIdle EXCEPT !.pc = "delete_unblock"]
          /\ UNCHANGED ret
  /\ UNCHANGED <<thr, kernel_running, isr_queue, cb_freed, cpu, prim>>

\* DeleteUnblock that leaves the waiter the osErrorTimeout its Wait stored
DeleteUnblock_Timeout(w) ==
  LET thread == Head(w.list)
  IN [w EXCEPT !.list = Tail(w.list),
               !.thr = osRtxThreadWaitExit(w.thr, thread, osErrorTimeout)]

\* one iteration of the loop of lines 415-418: osRtxThreadListGet takes the
\* first thread of the list
DeleteUnblock(w) ==
  LET thread == Head(w.list)
  IN [w EXCEPT !.list = Tail(w.list),
               !.thr = osRtxThreadWaitExit(w.thr, thread, osErrorResource)]

\* lines 415-418; after the last iteration the call is at line 419
svcRtxEventFlagsDelete_Unblock ==
  /\ run.pc = "delete_unblock"
  /\ ef.thread_list # <<>>
  /\ LET w == DeleteUnblock(WalkState(0, 0))
     IN /\ ef' = [ef EXCEPT !.thread_list = w.list]
        /\ thr' = w.thr
        /\ run' = IF w.list = <<>>
                  THEN [run EXCEPT !.pc = "delete_dispatch"]
                  ELSE run
  /\ UNCHANGED <<kernel_running, isr_queue, cb_freed, ret, cpu, prim>>

\* line 419: osRtxThreadDispatch(NULL), called if the loop has woken a
\* thread; the thread switch it asks for happens after the service call
svcRtxEventFlagsDelete_Dispatch ==
  /\ run.pc = "delete_dispatch"
  /\ run' = [run EXCEPT !.pc = "delete_free"]
  /\ UNCHANGED <<ef, thr, kernel_running, isr_queue, cb_freed, ret, cpu, prim>>

\* DeleteFrees that frees every control block
DeleteFrees_Always(e) == TRUE

\* line 423: the control block is freed if the object is a system object
DeleteFrees(e) == And(e.flags, osRtxFlagSystemObject) # 0

\* lines 422-433: free the object memory and return.  A freed control block
\* keeps its content (heap) or has its first word, which holds id, reused as
\* the link of the pool's free list.
\* svcRtxEventFlagsDelete_Free that does not wait for the loop of line 415
svcRtxEventFlagsDelete_Free_Early ==
  /\ run.pc \in {"delete_unblock", "delete_free"}
  /\ IF DeleteFrees(ef)
     THEN /\ cb_freed' = TRUE
          /\ \E id \in {osRtxIdEventFlags, osRtxIdInvalid} :
               ef' = [ef EXCEPT !.id = id]
     ELSE UNCHANGED <<ef, cb_freed>>
  /\ Return("Delete", "thread", osOK)
  /\ run' = RunIdle
  /\ UNCHANGED <<thr, kernel_running, isr_queue, cpu, prim>>

svcRtxEventFlagsDelete_Free ==
  /\ \/ run.pc = "delete_unblock" /\ ef.thread_list = <<>>
     \/ run.pc = "delete_free"
  /\ IF DeleteFrees(ef)
     THEN /\ cb_freed' = TRUE
          /\ \E id \in {osRtxIdEventFlags, osRtxIdInvalid} :
               ef' = [ef EXCEPT !.id = id]
     ELSE UNCHANGED <<ef, cb_freed>>
  /\ Return("Delete", "thread", osOK)
  /\ run' = RunIdle
  /\ UNCHANGED <<thr, kernel_running, isr_queue, cpu, prim>>

\* ---- calls run to their return, with no interrupt in between ----
RECURSIVE SetWalkAll(_)
SetWalkAll(w) == IF w.i > Len(w.list) THEN w ELSE SetWalkAll(SetWalk(w))

RECURSIVE PostProcessWalkAll(_)
PostProcessWalkAll(w) ==
  IF w.i > Len(w.list) THEN w ELSE PostProcessWalkAll(PostProcessWalk(w))

\* osEventFlagsSet from a thread: svcRtxEventFlagsSet and its loop
SetInThread(e, th, flags) ==
  IF SetChecks(e, flags) # 0
  THEN [ef |-> e, thr |-> th, ret |-> SetChecks(e, flags)]
  ELSE LET s == EventFlagsSet(e.event_flags, flags)
           w == SetWalkAll([word |-> s.word, list |-> e.thread_list,
                            thr |-> th, event_flags |-> s.ret, i |-> 1])
       IN [ef |-> [e EXCEPT !.event_flags = w.word, !.thread_list = w.list],
           thr |-> w.thr, ret |-> w.event_flags]

\* osEventFlagsSet from an interrupt handler, the return from interrupt and
\* the post ISR processing of the object
SetInIsr(e, th, flags) ==
  IF SetChecks(e, flags) # 0
  THEN [ef |-> e, thr |-> th, ret |-> SetChecks(e, flags)]
  ELSE LET s == EventFlagsSet(e.event_flags, flags)
           w == PostProcessWalkAll([word |-> s.word, list |-> e.thread_list,
                                    thr |-> th, event_flags |-> 0, i |-> 1])
       IN [ef |-> [e EXCEPT !.event_flags = w.word, !.thread_list = w.list],
           thr |-> w.thr, ret |-> s.ret]

RECURSIVE DeleteUnblockAll(_)
DeleteUnblockAll(w) ==
  IF w.list = <<>> THEN w ELSE DeleteUnblockAll(DeleteUnblock(w))

\* osEventFlagsDelete from a thread: svcRtxEventFlagsDelete and its loop
DeleteInThread(e, th) ==
  IF e.id # osRtxIdEventFlags
  THEN [ef |-> e, thr |-> th, ret |-> osErrorParameter]
  ELSE IF e.state = "Inactive"
  THEN [ef |-> e, thr |-> th, ret |-> osErrorResource]
  ELSE LET w == DeleteUnblockAll([word |-> e.event_flags,
                                  list |-> e.thread_list, thr |-> th,
                                  event_flags |-> 0, i |-> 0])
       IN [ef |-> [e EXCEPT !.state = "Inactive", !.thread_list = w.list],
           thr |-> w.thr, ret |-> osOK]

\* ---- ISR calls ----
\* osRtxPostProcess: put the object into the post ISR processing queue
osRtxPostProcess(queue) == IF queue < MaxPending THEN queue + 1 ELSE queue

\* isrRtxEventFlagsSet that walks the wait list in the interrupt handler
isrRtxEventFlagsSet_Direct(flags) ==
  /\ LET s == SetInThread(ef, thr, flags)
     IN /\ ef' = s.ef
        /\ thr' = s.thr
        /\ Return("Set", "isr", s.ret)
  /\ UNCHANGED <<kernel_running, run, isr_queue, cb_freed, cpu, prim>>

\* isrRtxEventFlagsSet without the osRtxPostProcess of line 472
isrRtxEventFlagsSet_NoPost(flags) ==
  /\ IF SetChecks(ef, flags) # 0
     THEN /\ Return("Set", "isr", SetChecks(ef, flags))
          /\ UNCHANGED ef
     ELSE LET s == EventFlagsSet(ef.event_flags, flags)
          IN /\ ef' = [ef EXCEPT !.event_flags = s.word]
             /\ Return("Set", "isr", s.ret)
  /\ UNCHANGED <<thr, kernel_running, run, isr_queue, cb_freed, cpu, prim>>

\* isrRtxEventFlagsSet (lines 451-477)
isrRtxEventFlagsSet(flags) ==
  /\ IF SetChecks(ef, flags) # 0
     THEN /\ Return("Set", "isr", SetChecks(ef, flags))
          /\ UNCHANGED <<ef, isr_queue>>
     ELSE LET s == EventFlagsSet(ef.event_flags, flags)
          IN /\ ef' = [ef EXCEPT !.event_flags = s.word]
             /\ isr_queue' = osRtxPostProcess(isr_queue)
             /\ Return("Set", "isr", s.ret)
  /\ UNCHANGED <<thr, kernel_running, run, cb_freed, cpu, prim>>

\* WaitInIsr that looks at the timeout after EventFlagsCheck
WaitInIsr_CheckFirst(e, flags, options, timeout) ==
  IF e.id # osRtxIdEventFlags \/ FlagsInvalid(flags)
  THEN [word |-> e.event_flags, ret |-> osErrorParameter]
  ELSE IF e.state = "Inactive"
  THEN [word |-> e.event_flags, ret |-> osErrorResource]
  ELSE LET c == EventFlagsCheck(e.event_flags, flags, options)
       IN [word |-> c.word,
           ret |-> IF timeout # 0 THEN osErrorParameter
                   ELSE IF c.ret # 0 THEN c.ret ELSE osErrorResource]

\* isrRtxEventFlagsWait (lines 482-509): the new flag word and the value
\* returned
WaitInIsr(e, flags, options, timeout) ==
  IF e.id # osRtxIdEventFlags \/ timeout # 0 \/ FlagsInvalid(flags)
  THEN [word |-> e.event_flags, ret |-> osErrorParameter]
  ELSE IF e.state = "Inactive"
  THEN [word |-> e.event_flags, ret |-> osErrorResource]
  ELSE LET c == EventFlagsCheck(e.event_flags, flags, options)
       IN [word |-> c.word,
           ret |-> IF c.ret # 0 THEN c.ret ELSE osErrorResource]

isrRtxEventFlagsWait(flags, options, timeout) ==
  /\ LET r == WaitInIsr(ef, flags, options, timeout)
     IN /\ ef' = [ef EXCEPT !.event_flags = r.word]
        /\ Return("Wait", "isr", r.ret)
  /\ UNCHANGED <<thr, kernel_running, run, isr_queue, cb_freed, cpu, prim>>

\* osEventFlagsDelete from interrupt context (lines 597-599)
isrEventFlagsDelete ==
  /\ Return("Delete", "isr", osErrorISR)
  /\ UNCHANGED <<ef, thr, kernel_running, run, isr_queue, cb_freed, cpu, prim>>

\* ---- the scheduler's timer: one tick ----
\* every blocked thread with a finite timeout counts down; a thread whose
\* timeout expires leaves the wait list and keeps the osErrorTimeout that
\* osEventFlagsWait stored as its return value
Expired(t) ==
  thr[t].state = "blocked" /\ thr[t].delay = 1

osRtxTick_Handler ==
  /\ run.pc = "idle"
  /\ \E t \in Threads : thr[t].state = "blocked" /\ thr[t].delay # osWaitForever
  /\ thr' = [t \in Threads |->
               IF Expired(t)
               THEN [thr[t] EXCEPT !.state = "ready", !.wait_flags = 0,
                                   !.flags_options = 0, !.delay = 0]
               ELSE IF thr[t].state = "blocked" /\ thr[t].delay # osWaitForever
               THEN [thr[t] EXCEPT !.delay = thr[t].delay - 1]
               ELSE thr[t]]
  /\ ef' = [ef EXCEPT !.thread_list =
                        SelectSeq(ef.thread_list, LAMBDA t : ~Expired(t))]
  /\ UNCHANGED <<kernel_running, run, isr_queue, cb_freed, ret, cpu, prim>>

\* ---- the system ----
\* the steps that take no input
Steps ==
  \/ svcRtxEventFlagsSet_Walk
  \/ svcRtxEventFlagsSet_Done
  \/ \E can_block \in BOOLEAN : svcRtxEventFlagsWait_Enter(can_block)
  \/ svcRtxEventFlagsDelete
  \/ svcRtxEventFlagsDelete_Preempted
  \/ svcRtxEventFlagsDelete_Unblock
  \/ svcRtxEventFlagsDelete_Dispatch
  \/ svcRtxEventFlagsDelete_Free
  \/ osRtxEventFlagsPostProcess
  \/ osRtxEventFlagsPostProcess_Walk
  \/ osRtxEventFlagsPostProcess_Done

\* Threads wait without timeout or for ever, on valid flags
Next ==
  \/ Steps
  \/ \E flags \in Masks : svcRtxEventFlagsSet(flags)
  \/ \E ctx \in Contexts, flags \in Masks : svcRtxEventFlagsClear(ctx, flags)
  \/ \E t \in Threads, flags \in Masks, options \in OptionInputs,
        timeout \in {0, osWaitForever} :
       svcRtxEventFlagsWait(t, flags, options, timeout)
  \/ \E flags \in Masks : isrRtxEventFlagsSet(flags)
  \/ \E flags \in Masks, options \in OptionInputs :
       isrRtxEventFlagsWait(flags, options, 0)

Spec == Init /\ [][Next]_vars

\* Every call with valid and invalid input, observed; one thread waits,
\* without timeout or for ever
NextCalls ==
  \/ Steps
  \/ osKernelStart
  \/ svcRtxEventFlagsGetName
  \/ isrEventFlagsGetName
  \/ \E flags \in FlagInputs : svcRtxEventFlagsSet(flags)
  \/ \E ctx \in Contexts, flags \in FlagInputs : svcRtxEventFlagsClear(ctx, flags)
  \/ \E ctx \in Contexts : svcRtxEventFlagsGet(ctx)
  \/ \E t \in {1, NULL}, flags \in FlagInputs,
        options \in OptionInputs, timeout \in {0, osWaitForever} :
       svcRtxEventFlagsWait(t, flags, options, timeout)
  \/ \E flags \in FlagInputs : isrRtxEventFlagsSet(flags)
  \/ \E flags \in FlagInputs, options \in OptionInputs :
       isrRtxEventFlagsWait(flags, options, 0)
  \/ \E flags \in Masks :
       isrRtxEventFlagsWait(flags, osFlagsWaitAny, osWaitForever)
  \/ isrEventFlagsDelete

SpecCalls == InitCalls /\ [][NextCalls]_vars

\* Threads wait with a finite timeout or for ever while the timer ticks
NextTimer ==
  \/ Steps
  \/ osRtxTick_Handler
  \/ \E flags \in Masks : svcRtxEventFlagsSet(flags)
  \/ \E flags \in Masks : isrRtxEventFlagsSet(flags)
  \/ \E t \in Threads, flags \in Masks,
        options \in {osFlagsWaitAny, osFlagsWaitAll},
        timeout \in (1 .. MaxTimeout) \cup {osWaitForever} :
       svcRtxEventFlagsWait(t, flags, options, timeout)

\* a service call in progress runs to its return, the post processing runs,
\* and the timer ticks again and again
SpecTimer ==
  /\ Init
  /\ [][NextTimer]_vars
  /\ WF_vars(Steps)
  /\ SF_vars(osRtxTick_Handler)

\* The life of the control block, from memory with no object in it: of the
\* caller, or free in the allocator; thread 1 waits for ever
RetNone == [op |-> "none", ctx |-> "thread", val |-> 0,
  evr |-> "none"]

InitLife ==
  /\ ef = NoObject
  /\ thr = [t \in Threads |-> ThreadInit]
  /\ kernel_running = TRUE
  /\ run = RunIdle
  /\ isr_queue = 0
  /\ cb_freed \in BOOLEAN
  /\ ret = RetNone
  /\ cpu = CpuInit
  /\ prim = PrimIdle

NextLife ==
  \/ Steps
  \/ \E attr \in AttrInputs, pool \in BOOLEAN, alloc \in {NULL, EfAddr} :
       svcRtxEventFlagsNew(attr, pool, alloc)
  \/ isrEventFlagsNew
  \/ isrEventFlagsDelete
  \/ \E flags \in FlagInputs : svcRtxEventFlagsSet(flags)
  \/ \E flags \in FlagInputs : isrRtxEventFlagsSet(flags)
  \/ \E ctx \in Contexts, flags \in FlagInputs :
       svcRtxEventFlagsClear(ctx, flags)
  \/ \E ctx \in Contexts : svcRtxEventFlagsGet(ctx)
  \/ \E flags \in FlagInputs, options \in {osFlagsWaitAny, osFlagsWaitAll} :
       svcRtxEventFlagsWait(1, flags, options, osWaitForever)

SpecLife == InitLife /\ [][NextLife]_vars

\* ---- EventFlagsSet, EventFlagsClear, EventFlagsCheck by instruction ----
\* (lines 34-126) of a build with EXCLUSIVE_ACCESS == 0, which masks the
\* interrupts, and of a build with exclusive access, where atomic_set32,
\* atomic_clr32, atomic_chk32_all and atomic_chk32_any load the word with
\* LDREX and store it with STREX until the store succeeds
PrimOps == {"Set", "Clear", "Check"}

\* the function as one indivisible operation on the flag word
PrimOp(op, word, flags, options) ==
  IF op = "Set" THEN EventFlagsSet(word, flags)
  ELSE IF op = "Clear" THEN EventFlagsClear(word, flags)
  ELSE EventFlagsCheck(word, flags, options)

\* the word that the read-modify-write of the call stores for the word val
PrimStore(val) ==
  IF prim.op = "Set" THEN Or(val, prim.flags)
  ELSE And(val, Not32(prim.flags))

\* the call
Prim_Call(op, exclusive, flags, options) ==
  /\ prim.pc = "idle"
  /\ prim' = [PrimIdle EXCEPT
                !.pc = IF op = "Check" /\ And(options, osFlagsNoClear) # 0
                       THEN "read_noclear"
                       ELSE IF exclusive THEN "ldrex" ELSE "get_primask",
                !.op = op, !.exclusive = exclusive, !.flags = flags,
                !.options = IF op = "Check" THEN options ELSE 0,
                !.entry = cpu.primask]
  /\ UNCHANGED <<ef, thr, kernel_running, run, isr_queue, cb_freed, ret, cpu>>

\* lines 37, 63, 96: primask = __get_PRIMASK()
Prim_GetPrimask ==
  /\ prim.pc = "get_primask"
  /\ prim' = [prim EXCEPT !.pc = "disable_irq", !.primask = cpu.primask]
  /\ UNCHANGED <<ef, thr, kernel_running, run, isr_queue, cb_freed, ret, cpu>>

\* lines 42, 68, 97: __disable_irq()
Prim_DisableIrq ==
  /\ prim.pc = "disable_irq"
  /\ cpu' = [cpu EXCEPT !.primask = 1]
  /\ prim' = [prim EXCEPT !.pc = IF prim.op = "Set" THEN "rmw_load"
                                 ELSE "read"]
  /\ UNCHANGED <<ef, thr, kernel_running, run, isr_queue, cb_freed, ret>>

\* the condition of lines 100-101 fails on the word
CheckFails(word) == NotSet(word, prim.flags, prim.options)

\* lines 70, 99-102: event_flags = ef->event_flags, and for the check the
\* test of the condition; line 45: event_flags = ef->event_flags after the
\* store
Prim_Read ==
  /\ prim.pc = "read"
  /\ prim' =
       IF prim.op = "Set"
       THEN [prim EXCEPT !.pc = "enable_irq", !.event_flags = ef.event_flags]
       ELSE IF prim.op = "Check" /\ CheckFails(ef.event_flags)
       THEN [prim EXCEPT !.pc = "enable_irq", !.event_flags = 0,
                         !.at = ef.event_flags]
       ELSE [prim EXCEPT !.pc = "rmw_load", !.event_flags = ef.event_flags]
  /\ UNCHANGED <<ef, thr, kernel_running, run, isr_queue, cb_freed, ret, cpu>>

\* lines 44, 71, 104: the load of ef->event_flags |= flags and of
\* ef->event_flags &= ~flags
Prim_RmwLoad ==
  /\ prim.pc = "rmw_load"
  /\ prim' = [prim EXCEPT !.pc = "rmw_store", !.val = ef.event_flags]
  /\ UNCHANGED <<ef, thr, kernel_running, run, isr_queue, cb_freed, ret, cpu>>

\* lines 44, 71, 104: the store
Prim_RmwStore ==
  /\ prim.pc = "rmw_store"
  /\ ef' = [ef EXCEPT !.event_flags = PrimStore(prim.val)]
  /\ prim' = [prim EXCEPT !.pc = IF prim.op = "Set" THEN "read"
                                 ELSE "enable_irq",
                          !.at = ef.event_flags]
  /\ UNCHANGED <<thr, kernel_running, run, isr_queue, cb_freed, ret, cpu>>

\* Prim_EnableIrq with an unconditional __enable_irq()
Prim_EnableIrq_Always ==
  /\ prim.pc = "enable_irq"
  /\ cpu' = [cpu EXCEPT !.primask = 0]
  /\ prim' = [prim EXCEPT !.pc = "return"]
  /\ UNCHANGED <<ef, thr, kernel_running, run, isr_queue, cb_freed, ret>>

\* lines 47-49, 73-75, 107-109: if (primask == 0U) __enable_irq()
Prim_EnableIrq ==
  /\ prim.pc = "enable_irq"
  /\ cpu' = IF prim.primask = 0 THEN [cpu EXCEPT !.primask = 0] ELSE cpu
  /\ prim' = [prim EXCEPT !.pc = "return"]
  /\ UNCHANGED <<ef, thr, kernel_running, run, isr_queue, cb_freed, ret>>

\* lines 118-122: the check with osFlagsNoClear, the same in both builds
Prim_ReadNoClear ==
  /\ prim.pc = "read_noclear"
  /\ prim' = [prim EXCEPT !.pc = "return",
                          !.event_flags = IF CheckFails(ef.event_flags)
                                          THEN 0 ELSE ef.event_flags,
                          !.at = ef.event_flags]
  /\ UNCHANGED <<ef, thr, kernel_running, run, isr_queue, cb_freed, ret, cpu>>

\* lines 51, 77, 112, 114: LDREX of the atomic_ functions; a check whose
\* condition fails clears the monitor and returns 0
Prim_Ldrex ==
  /\ prim.pc = "ldrex"
  /\ IF prim.op = "Check" /\ CheckFails(ef.event_flags)
     THEN /\ prim' = [prim EXCEPT !.pc = "return", !.val = ef.event_flags,
                                  !.event_flags = 0, !.at = ef.event_flags]
          /\ cpu' = [cpu EXCEPT !.monitor = FALSE]
     ELSE /\ prim' = [prim EXCEPT !.pc = "strex", !.val = ef.event_flags]
          /\ cpu' = [cpu EXCEPT !.monitor = TRUE]
  /\ UNCHANGED <<ef, thr, kernel_running, run, isr_queue, cb_freed, ret>>

\* STREX: it stores if the monitor is still set, and the function returns
\* the new word (atomic_set32) or the loaded one; if not, the function loads
\* again
Prim_Strex ==
  /\ prim.pc = "strex"
  /\ IF cpu.monitor
     THEN /\ ef' = [ef EXCEPT !.event_flags = PrimStore(prim.val)]
          /\ prim' = [prim EXCEPT
                        !.pc = "return",
                        !.event_flags = IF prim.op = "Set"
                                        THEN PrimStore(prim.val)
                                        ELSE prim.val,
                        !.at = ef.event_flags]
     ELSE /\ prim' = [prim EXCEPT !.pc = "ldrex"]
          /\ UNCHANGED ef
  /\ cpu' = [cpu EXCEPT !.monitor = FALSE]
  /\ UNCHANGED <<thr, kernel_running, run, isr_queue, cb_freed, ret>>

\* lines 54, 80, 125: return event_flags
Prim_Return ==
  /\ prim.pc = "return"
  /\ ret' = [op |-> prim.op, ctx |-> "thread", val |-> prim.event_flags,
             evr |-> "none"]
  /\ prim' = PrimIdle
  /\ UNCHANGED <<ef, thr, kernel_running, run, isr_queue, cb_freed, cpu>>

\* an interrupt, taken while PRIMASK is 0: its handler sets or clears flags
\* of the same word and returns; exception entry clears the monitor
Prim_Interrupt(op, flags) ==
  /\ cpu.primask = 0
  /\ ef' = [ef EXCEPT !.event_flags = PrimOp(op, ef.event_flags, flags, 0).word]
  /\ cpu' = [cpu EXCEPT !.monitor = FALSE]
  /\ UNCHANGED <<thr, kernel_running, run, isr_queue, cb_freed, ret, prim>>

\* an object with any flag word, the caller with interrupts enabled or
\* disabled
InitAtomic ==
  /\ \E word \in Masks : ef = [Created(0) EXCEPT !.event_flags = word]
  /\ thr = [t \in Threads |-> ThreadInit]
  /\ kernel_running = TRUE
  /\ run = RunIdle
  /\ isr_queue = 0
  /\ cb_freed = FALSE
  /\ ret = RetNone
  /\ \E primask \in {0, 1} : cpu = [CpuInit EXCEPT !.primask = primask]
  /\ prim = PrimIdle

NextAtomic ==
  \/ \E op \in PrimOps, exclusive \in BOOLEAN, flags \in Masks,
        options \in OptionInputs :
       Prim_Call(op, exclusive, flags, options)
  \/ Prim_GetPrimask
  \/ Prim_DisableIrq
  \/ Prim_Read
  \/ Prim_RmwLoad
  \/ Prim_RmwStore
  \/ Prim_EnableIrq
  \/ Prim_ReadNoClear
  \/ Prim_Ldrex
  \/ Prim_Strex
  \/ Prim_Return
  \/ \E op \in {"Set", "Clear"}, flags \in Masks : Prim_Interrupt(op, flags)

SpecAtomic == InitAtomic /\ [][NextAtomic]_vars

\* ---- properties ----
Valid == ef.id = osRtxIdEventFlags

Active == Valid /\ ef.state = "Active"

IsFlags(val) == val >= 0

SetIn(ctx, e, th, flags) ==
  IF ctx = "thread" THEN SetInThread(e, th, flags) ELSE SetInIsr(e, th, flags)

\* C1, from every state: the two Sets run one after the other
C1_TwoSets ==
  (Active /\ ef.thread_list = <<>> /\ run.pc = "idle") =>
    \A c1 \in Contexts, c2 \in Contexts, f1 \in Masks, f2 \in Masks :
      LET s1 == SetIn(c1, ef, thr, f1)
          s2 == SetIn(c2, s1.ef, s1.thr, f2)
      IN /\ s1.ret = s1.ef.event_flags
         /\ s2.ret = s2.ef.event_flags
         /\ GetValue(s2.ef) = Or(Or(ef.event_flags, f1), f2)

\* C1, on every step of a Set on an object with no waiter
C1_SetStep ==
  \A flags \in Masks :
    (Active /\ ef.thread_list = <<>>) =>
      /\ isrRtxEventFlagsSet(flags) =>
           /\ ef'.event_flags = Or(ef.event_flags, flags)
           /\ ret'.val = ef'.event_flags
      /\ svcRtxEventFlagsSet(flags) =>
           /\ ef'.event_flags = Or(ef.event_flags, flags)
           /\ run'.event_flags = ef'.event_flags
      /\ svcRtxEventFlagsSet_Done => ret'.val = run.event_flags

\* C1: on an Active object with an empty wait list and flag word w, Set(f1)
\* followed by Set(f2) leaves Get() = w | f1 | f2, and each Set returns the
\* flag word as it is right after that Set
C1_SetSetGet == [](C1_TwoSets) /\ [][C1_SetStep]_vars

\* a Set has returned 5 on an object with no waiter: both flags are set
C1_Witness ==
  /\ Active /\ ef.thread_list = <<>> /\ run.pc = "idle"
  /\ ret.op = "Set" /\ ret.val = 5 /\ ef.event_flags = 5

\* C2, for a Clear of any flags in any state
C2_Clears ==
  Active =>
    \A flags \in Masks :
      LET c == ClearIn(ef, flags)
          after == [ef EXCEPT !.event_flags = c.word]
      IN /\ c.ret = ef.event_flags
         /\ And(GetValue(after), flags) = 0
         /\ And(GetValue(after), Not32(flags)) =
              And(ef.event_flags, Not32(flags))

\* C2, on every step in which a Clear of flags below 2^31 returns
C2_ClearStep ==
  (Active /\ ret' # ret /\ ret'.op = "Clear" /\ ret'.val # osErrorParameter) =>
    /\ ret'.val = ef.event_flags
    /\ And(ef'.event_flags, Not32(ef.event_flags)) = 0

\* C2: Clear(f) on an Active object, from thread or interrupt context,
\* returns the flag word as it was before the clear; afterwards Get() & f = 0
\* and every bit outside f is unchanged
C2_Clear == [](C2_Clears) /\ [][C2_ClearStep]_vars

\* a Clear called from an interrupt handler has returned 5 and left 1
C2_Witness ==
  /\ Active /\ ret.op = "Clear" /\ ret.ctx = "isr"
  /\ ret.val = 5 /\ ef.event_flags = 1

\* the wait condition, as the claims state it
WaitAll(options) == And(options, osFlagsWaitAll) # 0

AutoClear(options) == And(options, osFlagsNoClear) = 0

CondHolds(word, flags, options) ==
  IF WaitAll(options) THEN And(word, flags) = flags ELSE And(word, flags) # 0

\* thread t leaves the wait with a flag value in this step
Woken(t) ==
  thr[t].state = "blocked" /\ thr'[t].state = "ready" /\ IsFlags(thr'[t].ret_val)

\* a step of one of the two walks over the wait list
WalkStep == svcRtxEventFlagsSet_Walk \/ osRtxEventFlagsPostProcess_Walk

\* the threads that can call osEventFlagsWait in this state
WaitCallers == IF ThreadMode THEN RunningThreads ELSE {}

\* C3, for the check and the Wait of any flags in any state
C3_Check ==
  \A flags \in Masks, options \in OptionInputs :
    /\ EventFlagsCheck(ef.event_flags, flags, options).ret # 0 =>
         CondHolds(ef.event_flags, flags, options)
    /\ IsFlags(WaitInIsr(ef, flags, options, 0).ret) =>
         CondHolds(ef.event_flags, flags, options)
    /\ \A t \in WaitCallers, timeout \in {0, osWaitForever} :
         IsFlags(WaitInThread(ef, t, flags, options, timeout).ret) =>
           CondHolds(ef.event_flags, flags, options)

\* C3, on every step: a waiter is woken with flags only when its condition
\* holds
C3_Step ==
  \A t \in Threads :
    Woken(t) =>
      CondHolds(ef.event_flags, thr[t].wait_flags, thr[t].flags_options)

\* C3: a Check or Wait succeeds only when the condition holds against the
\* flag word at that moment: all of the flags with osFlagsWaitAll, one of them
\* without; in Wait, in the walk of Set and in the walk of the post processing
C3_OnlyWhenSet == [](C3_Check) /\ [][C3_Step]_vars

\* the post processing has woken thread 1, which waited for all of 5
C3_Witness ==
  /\ run.pc = "post_walk"
  /\ thr[1].state = "ready" /\ thr[1].ret_val = 5
  /\ thr[2].state = "blocked" /\ WaitAll(thr[2].flags_options)

\* the flag word that C4 states after a check of flags that returns ret
AfterCheck(word, flags, options, val) ==
  IF IsFlags(val) /\ val # 0 /\ AutoClear(options)
  THEN And(word, Not32(flags))
  ELSE word

\* C4, for the check and the Wait of any flags in any state
C4_Check ==
  \A flags \in Masks, options \in OptionInputs :
    /\ LET c == EventFlagsCheck(ef.event_flags, flags, options)
       IN c.word = AfterCheck(ef.event_flags, flags, options, c.ret)
    /\ LET r == WaitInIsr(ef, flags, options, 0)
       IN r.word = AfterCheck(ef.event_flags, flags, options, r.ret)
    /\ \A t \in WaitCallers, timeout \in {0, osWaitForever} :
         LET r == WaitInThread(ef, t, flags, options, timeout)
         IN r.word = AfterCheck(ef.event_flags, flags, options, r.ret)

\* C4, on every step of a walk
C4_Step ==
  WalkStep =>
    LET t == ef.thread_list[run.i]
    IN ef'.event_flags =
         IF Woken(t) /\ AutoClear(thr[t].flags_options)
         THEN And(ef.event_flags, Not32(thr[t].wait_flags))
         ELSE ef.event_flags

\* C4: a successful Check or Wait with auto-clear removes from the flag word
\* the bits of the requested mask and no other bit (new word = old word &
\* ~flags); a successful one with osFlagsNoClear and every unsuccessful one
\* leave the flag word unchanged
C4_AutoClear == [](C4_Check) /\ [][C4_Step]_vars

\* a walk of Set has woken thread 1 and cleared its flag; flag 4 stays
C4_Witness ==
  /\ run.pc = "set_walk"
  /\ thr[1].state = "ready" /\ thr[1].ret_val = 5
  /\ ef.event_flags = 4

\* thread t is blocked in a Wait with osFlagsWaitAll
BlockedAll(t) == thr[t].state = "blocked" /\ WaitAll(thr[t].flags_options)

InList(list, t) == \E k \in 1 .. Len(list) : list[k] = t

\* C5 as stated, for a mask m that is not empty: a thread-context Set wakes
\* the waiter, with the flag word, if the word it leaves has all of m, and
\* leaves it in the wait list if not
C5_Original ==
  (Active /\ ThreadMode) =>
    \A t \in Threads, flags \in Masks :
      (BlockedAll(t) /\ thr[t].wait_flags # 0) =>
        LET m == thr[t].wait_flags
            word == Or(ef.event_flags, flags)
            s == SetInThread(ef, thr, flags)
        IN IF And(word, m) = m
           THEN /\ s.thr[t].state = "ready"
                /\ s.thr[t].ret_val = word
                /\ ~InList(s.ef.thread_list, t)
           ELSE /\ s.thr[t].state = "blocked"
                /\ InList(s.ef.thread_list, t)

\* C5, the part that stays: no Set that leaves (flag_word & m) # m wakes the
\* waiter, from thread or from interrupt context
C5_Stays ==
  (Active /\ ThreadMode) =>
    \A t \in Threads, flags \in Masks, ctx \in Contexts :
      (BlockedAll(t) /\
       And(Or(ef.event_flags, flags), thr[t].wait_flags) # thr[t].wait_flags) =>
        LET s == SetIn(ctx, ef, thr, flags)
        IN /\ s.thr[t] = thr[t]
           /\ InList(s.ef.thread_list, t)

\* C5, the scenario: Wait(0b101, wait_all) on a zero word, Set(0b001), then
\* Set(0b100)
C5_Scenario ==
  \A t \in Threads :
    (/\ Active /\ ThreadMode
     /\ ef.event_flags = 0 /\ ef.thread_list = <<t>>
     /\ BlockedAll(t) /\ thr[t].wait_flags = 5) =>
      LET s1 == SetInThread(ef, thr, 1)
          s2 == SetInThread(s1.ef, s1.thr, 4)
      IN /\ s1.thr[t] = thr[t]
         /\ s1.ef.thread_list = <<t>>
         /\ s2.thr[t].state = "ready"
         /\ s2.thr[t].ret_val = 5
         /\ s2.ef.thread_list = <<>>

\* C5, on every step of the walk of a thread-context Set that comes to a
\* waiter with osFlagsWaitAll
C5_Step ==
  svcRtxEventFlagsSet_Walk =>
    LET t == ef.thread_list[run.i]
        m == thr[t].wait_flags
    IN WaitAll(thr[t].flags_options) =>
         IF ef.event_flags # 0 /\ And(ef.event_flags, m) = m
         THEN /\ thr'[t].state = "ready"
              /\ thr'[t].ret_val = ef.event_flags
              /\ ~InList(ef'.thread_list, t)
         ELSE /\ thr'[t] = thr[t]
              /\ ef'.thread_list = ef.thread_list

\* C5, amended: a thread blocked in Wait with wait_all on mask m stays in the
\* wait list across every Set after which (flag_word & m) # m; a
\* thread-context Set removes and wakes it exactly when the walk of that Set
\* comes to it with a flag word, as the Set and the auto-clear of the waiters
\* ahead of it have left it, that is not zero and has (flag_word & m) = m, and
\* its wait result is that flag word; Wait(0b101, wait_all) on a zero word
\* stays blocked across Set(0b001) and wakes with 0b101 by the next Set(0b100)
C5_WaitAll == [](C5_Stays /\ C5_Scenario) /\ [][C5_Step]_vars

\* the walk of a Set has woken thread 1 with 5 and cleared the flags, and
\* has left thread 2, which waits for all of 5 too, in the wait list
C5_Witness ==
  /\ run.pc = "set_walk" /\ run.i > Len(ef.thread_list)
  /\ thr[1].state = "ready" /\ thr[1].ret_val = 5
  /\ BlockedAll(2) /\ thr[2].wait_flags = 5
  /\ ef.event_flags = 0

\* C6, for a Wait of any flags with timeout 0 in any state
C6_NoWait ==
  Active =>
    \A flags \in Masks, options \in OptionInputs :
      ~CondHolds(ef.event_flags, flags, options) =>
        /\ WaitInIsr(ef, flags, options, 0) =
             [word |-> ef.event_flags, ret |-> osErrorResource]
        /\ \A t \in WaitCallers \ {NULL} :
             WaitInThread(ef, t, flags, options, 0) =
               [word |-> ef.event_flags, ret |-> osErrorResource,
                block |-> FALSE]

\* C6, on every step in which a Wait on an Active object returns
\* osErrorResource
C6_Step ==
  (Active /\ ret' # ret /\ ret'.op = "Wait" /\ ret'.val = osErrorResource) =>
    /\ ef' = ef
    /\ run' = run
    /\ \A t \in Threads :
         /\ thr'[t].state = thr[t].state
         /\ thr'[t].ret_val # thr[t].ret_val => thr'[t].ret_val = osErrorResource

\* C6: Wait with timeout 0 on an Active object whose condition is not met
\* returns osErrorResource at once, to a thread and to an interrupt handler:
\* the caller is not put into the wait list, it is not blocked, and the
\* flag word is unchanged
C6_TryWait == [](C6_NoWait) /\ [][C6_Step]_vars

\* thread 1 has tried to wait on an object with flag 4 set, and is not blocked
C6_Witness ==
  /\ Active /\ kernel_running
  /\ ret = [op |-> "Wait", ctx |-> "thread", val |-> osErrorResource,
            evr |-> "none"]
  /\ thr[1].state = "ready" /\ thr[1].ret_val = osErrorResource
  /\ ef.thread_list = <<>> /\ ef.event_flags = 4

\* the record of the Delete that succeeded
DeleteOK == [op |-> "Delete", ctx |-> "thread", val |-> osOK,
  evr |-> "none"]

\* C7, for the Delete of the object in any state
C7_All ==
  (Active /\ ThreadMode) =>
    LET d == DeleteInThread(ef, thr)
    IN /\ d.ret = osOK
       /\ d.ef.thread_list = <<>>
       /\ d.ef.state = "Inactive"
       /\ \A t \in Threads :
            IF thr[t].state = "blocked"
            THEN /\ InList(ef.thread_list, t)
                 /\ d.thr[t].state = "ready"
                 /\ d.thr[t].ret_val = osErrorResource
            ELSE d.thr[t] = thr[t]

\* C7, on every step from the call of Delete to its return
C7_Step ==
  /\ (Active /\ svcRtxEventFlagsDelete) =>
       run'.pc = "delete_unblock" /\ ef'.state = "Inactive"
  /\ run.pc = "delete_unblock" =>
       /\ ef.state = "Inactive"
       /\ \A t \in Threads :
            thr'[t] # thr[t] =>
              /\ thr[t].state = "blocked"
              /\ thr'[t].state = "ready"
              /\ thr'[t].ret_val = osErrorResource
              /\ ef.thread_list # <<>> /\ Head(ef.thread_list) = t
              /\ ef'.thread_list = Tail(ef.thread_list)
  /\ svcRtxEventFlagsDelete_Free =>
       /\ ret' = DeleteOK
       /\ ef'.thread_list = <<>>
       /\ ef'.state = "Inactive"
       /\ \A t \in Threads : thr'[t].state = "ready"

\* C7: Delete, called by a thread on an Active object with N >= 0 blocked
\* threads, returns osOK, takes all N threads off the wait list and wakes
\* each of them with wait result osErrorResource, never with a flag value or
\* osErrorTimeout; it leaves the wait list empty and the object Inactive
C7_Delete == [](C7_All) /\ [][C7_Step]_vars

\* Delete has returned osOK; the two threads that waited have osErrorResource
C7_Witness ==
  /\ ret = DeleteOK /\ run.pc = "idle"
  /\ ef.state = "Inactive" /\ ef.thread_list = <<>>
  /\ \A t \in Threads :
       thr[t].state = "ready" /\ thr[t].ret_val = osErrorResource

\* a Delete has succeeded and returned
Deleted == ef.state = "Inactive" /\ run.pc = "idle"

ErrorCodes == {osErrorResource, osErrorParameter}

\* C8 as stated: every call after the Delete returns osErrorResource or
\* osErrorParameter
C8_Original == (Deleted /\ ret # DeleteOK) => ret.val \in ErrorCodes

\* the values that C8, amended, lets a call on the deleted object return
AfterDelete(op, ctx) ==
  IF op = "Get" THEN {0}
  ELSE IF op = "GetName" THEN {NULL}
  ELSE IF op = "Delete" /\ ctx = "isr" THEN {osErrorISR}
  ELSE IF op = "Wait" /\ ctx = "thread" THEN ErrorCodes \cup {osError}
  ELSE ErrorCodes

\* C8, for the value last returned by a call on the deleted object
C8_Returns ==
  (Deleted /\ ret # DeleteOK) => ret.val \in AfterDelete(ret.op, ret.ctx)

\* C8, for every call on the deleted object, on any flags
C8_Calls ==
  Deleted =>
    /\ GetValue(ef) = 0
    /\ DeleteInThread(ef, thr) =
         [ef |-> ef, thr |-> thr, ret |-> DeleteInThread(ef, thr).ret]
    /\ DeleteInThread(ef, thr).ret \in ErrorCodes
    /\ \A flags \in FlagInputs :
         /\ \A ctx \in Contexts :
              SetIn(ctx, ef, thr, flags) =
                [ef |-> ef, thr |-> thr, ret |-> SetChecks(ef, flags)]
         /\ SetChecks(ef, flags) \in ErrorCodes
         /\ ClearIn(ef, flags).word = ef.event_flags
         /\ ClearIn(ef, flags).ret \in ErrorCodes
         /\ \A options \in OptionInputs, timeout \in {0, osWaitForever} :
              /\ WaitInIsr(ef, flags, options, timeout).word = ef.event_flags
              /\ WaitInIsr(ef, flags, options, timeout).ret \in ErrorCodes
              /\ \A t \in {1, NULL} :
                   LET r == WaitInThread(ef, t, flags, options, timeout)
                   IN /\ r.word = ef.event_flags
                      /\ ~r.block
                      /\ r.ret \in IF t = NULL THEN {osError} ELSE ErrorCodes

\* C8, on every step after the Delete
C8_Step ==
  Deleted =>
    /\ ef'.event_flags = ef.event_flags
    /\ ef'.thread_list = ef.thread_list
    /\ ef'.state = ef.state
    /\ run'.pc = "idle"
    /\ \A t \in Threads : thr'[t].state = thr[t].state
    /\ (ret' # ret /\ ret'.val = osError) => ~kernel_running

\* C8, amended: after a Delete that succeeded, Set, Clear and Wait return
\* osErrorResource or osErrorParameter (a Wait from thread context with no
\* running thread returns osError), Get returns 0, GetName returns NULL,
\* Delete returns osErrorResource or osErrorParameter to a thread and
\* osErrorISR to an interrupt handler; no call returns a flag value other
\* than 0 or returns osOK, changes the flag word or puts a thread into the
\* wait list
C8_AfterDelete == [](C8_Returns /\ C8_Calls) /\ [][C8_Step]_vars

\* an interrupt handler has called Set on the deleted and freed object
C8_Witness ==
  /\ Deleted /\ cb_freed
  /\ ret.op = "Set" /\ ret.ctx = "isr" /\ ret.val \in ErrorCodes

\* C9, for a Set of any flags from any state in which a thread can call it
C9_SameOutcome ==
  (Active /\ ThreadMode) =>
    \A flags \in Masks :
      LET a == SetInThread(ef, thr, flags)
          b == SetInIsr(ef, thr, flags)
      IN /\ a.thr = b.thr
         /\ a.ef.thread_list = b.ef.thread_list
         /\ a.ef.event_flags = b.ef.event_flags

\* C9, on every step of one of the two walks: the other walk does the same
\* to the flag word, the wait list and the threads
C9_Step ==
  WalkStep =>
    LET a == SetWalk(WalkState(0, run.i))
        b == PostProcessWalk(WalkState(0, run.i))
    IN /\ a.word = b.word /\ a.list = b.list /\ a.thr = b.thr /\ a.i = b.i
       /\ ef'.event_flags = b.word
       /\ ef'.thread_list = b.list
       /\ thr' = b.thr

\* C9: from any state of an Active object, a Set(f) from an interrupt
\* handler followed by the return from interrupt and the post processing has
\* the same outcome for the waiters as a Set(f) from a thread: the same
\* threads are woken, each with the same wait result, the same threads stay
\* blocked, and the final flag word is the same
C9_IsrSetAsThreadSet == [](C9_SameOutcome) /\ [][C9_Step]_vars

\* the post processing is through the wait list: it has woken thread 2 with
\* 4 and left thread 1 in the list
C9_Witness ==
  /\ Active /\ run.pc = "post_walk" /\ run.i > Len(ef.thread_list)
  /\ ef.thread_list = <<1>> /\ thr[1].state = "blocked"
  /\ thr[2].state = "ready" /\ thr[2].ret_val = 4

\* C10, on every step
C10_Step ==
  /\ \A flags \in Masks :
       isrRtxEventFlagsSet(flags) =>
         /\ thr' = thr
         /\ ef'.thread_list = ef.thread_list
         /\ ef'.state = ef.state
         /\ run' = run
         /\ Active =>
              /\ ef'.event_flags = Or(ef.event_flags, flags)
              /\ isr_queue' > 0
  /\ \A t \in Threads :
       (thr[t].state = "blocked" /\ thr'[t].state # "blocked") =>
         \/ osRtxEventFlagsPostProcess_Walk
         \/ svcRtxEventFlagsSet_Walk
         \/ svcRtxEventFlagsDelete_Unblock

\* C10: a Set from an interrupt handler changes the flag word and registers
\* the object for the post processing, and nothing else: in the handler no
\* thread leaves the wait list and no thread's state or wait result changes;
\* a waiter that the Set satisfies becomes ready when the post processing
\* runs, after the return from interrupt
C10_IsrSetDefers == [][C10_Step]_vars

\* an interrupt handler has set the flag thread 1 waits for: the thread is
\* still blocked and the object is registered for the post processing
C10_Witness ==
  /\ Active /\ run.pc = "idle" /\ isr_queue > 0
  /\ ef.thread_list = <<1>> /\ thr[1].state = "blocked"
  /\ thr[1].wait_flags = 4 /\ ef.event_flags = 4

\* the errors of C11
CallErrors == {osErrorParameter, osErrorResource, osErrorISR}

\* the state of the threads: all of a thread record but the value returned
ThreadStates(th) ==
  [t \in Threads |-> [th[t] EXCEPT !.ret_val = 0]]

\* C11, for every call in any state, on any flags
C11_Calls ==
  /\ LET d == DeleteInThread(ef, thr)
     IN d.ret # osOK =>
          d.ret \in CallErrors /\ d.ef = ef /\ d.thr = thr
  /\ \A flags \in FlagInputs :
       LET err == SetChecks(ef, flags)
           c == ClearIn(ef, flags)
       IN /\ err # 0 =>
               /\ err \in CallErrors
               /\ \A ctx \in Contexts :
                    SetIn(ctx, ef, thr, flags) =
                      [ef |-> ef, thr |-> thr, ret |-> err]
          /\ ~IsFlags(c.ret) =>
               c.ret \in CallErrors /\ c.word = ef.event_flags
          /\ \A options \in OptionInputs, timeout \in {0, osWaitForever} :
               /\ LET r == WaitInIsr(ef, flags, options, timeout)
                  IN ~IsFlags(r.ret) => r.word = ef.event_flags
               /\ \A t \in WaitCallers :
                    LET r == WaitInThread(ef, t, flags, options, timeout)
                    IN (~IsFlags(r.ret) /\ ~r.block) =>
                         r.word = ef.event_flags

\* C11, on every step: a call that returns an error changes nothing, and
\* only a Set that returns flags registers the object for post processing
C11_Step ==
  /\ (ret' # ret /\ ret'.val \in CallErrors) =>
       /\ ef' = ef
       /\ ThreadStates(thr') = ThreadStates(thr)
       /\ isr_queue' = isr_queue
       /\ run' = run
  /\ isr_queue' > isr_queue =>
       ret'.op = "Set" /\ ret'.ctx = "isr" /\ IsFlags(ret'.val)

\* C11: every call that returns an error (osErrorParameter for a handle that
\* is not an event flags object or for flags with bit 31, osErrorResource
\* for an Inactive object, osErrorISR for Delete from an interrupt handler)
\* leaves the flag word, the wait list, the object state and every thread
\* state as they were and registers no post processing
C11_ErrorsChangeNothing == [](C11_Calls) /\ [][C11_Step]_vars

\* an interrupt handler has called Set with bit 31 on the object thread 1
\* waits on: nothing is registered
C11_Witness ==
  /\ Active /\ isr_queue = 0 /\ run.pc = "idle"
  /\ ret = [op |-> "Set", ctx |-> "isr", val |-> osErrorParameter,
            evr |-> "none"]
  /\ ef.thread_list = <<1>> /\ thr[1].state = "blocked"

\* the timeouts of C12 that are not 0
Nonzero == {MaxTimeout, osWaitForever}

\* C12 as stated: with timeout 0 the Wait of an interrupt handler returns the
\* flag word if the condition is met and osErrorResource if not
C12_Original ==
  Active =>
    \A flags \in Masks, options \in OptionInputs :
      WaitInIsr(ef, flags, options, 0).ret =
        IF CondHolds(ef.event_flags, flags, options)
        THEN ef.event_flags
        ELSE osErrorResource

\* C12, for the Wait of any flags by an interrupt handler in any state
C12_Calls ==
  Active =>
    \A flags \in Masks, options \in OptionInputs :
      /\ \A timeout \in Nonzero :
           WaitInIsr(ef, flags, options, timeout) =
             [word |-> ef.event_flags, ret |-> osErrorParameter]
      /\ WaitInIsr(ef, flags, options, 0).ret =
           IF CondHolds(ef.event_flags, flags, options) /\ ef.event_flags # 0
           THEN ef.event_flags
           ELSE osErrorResource

\* C12, on every step in which a Wait returns to an interrupt handler
C12_Step ==
  (ret' # ret /\ ret'.op = "Wait" /\ ret'.ctx = "isr") =>
    /\ thr' = thr
    /\ ef'.thread_list = ef.thread_list
    /\ run' = run
    /\ ret'.val = osErrorParameter => ef' = ef

\* C12, amended: Wait called from an interrupt handler never blocks: with a
\* timeout that is not 0 it returns osErrorParameter and leaves the flag
\* word, whatever the flag word is; with timeout 0 it returns the flag word
\* if the condition is met and the flag word is not zero, and
\* osErrorResource if not (a wait for all of the empty mask on a zero flag
\* word returns osErrorResource); no thread is put into the wait list
C12_IsrWait == [](C12_Calls) /\ [][C12_Step]_vars

\* an interrupt handler has called Wait with a timeout on an object whose
\* flags are all set: the flags stay
C12_Witness ==
  /\ Active /\ ef.event_flags = 5 /\ ef.thread_list = <<>>
  /\ ret = [op |-> "Wait", ctx |-> "isr", val |-> osErrorParameter,
            evr |-> "none"]

\* thread t is blocked in a Wait with a finite timeout
BlockedFinite(t) == thr[t].state = "blocked" /\ thr[t].delay # osWaitForever

\* C13, in every state: the threads in the wait list are the blocked threads
C13_InList ==
  \A t \in Threads : InList(ef.thread_list, t) <=> thr[t].state = "blocked"

\* C13, on every step in which a blocked thread returns
C13_Step ==
  \A t \in Threads :
    (thr[t].state = "blocked" /\ thr'[t].state # "blocked") =>
      /\ thr'[t].state = "ready"
      /\ ~InList(ef'.thread_list, t)
      /\ \/ /\ WalkStep
            /\ thr'[t].ret_val = ef.event_flags /\ ef.event_flags # 0
            /\ CondHolds(ef.event_flags, thr[t].wait_flags,
                         thr[t].flags_options)
         \/ /\ svcRtxEventFlagsDelete_Unblock
            /\ thr'[t].ret_val = osErrorResource
         \/ /\ osRtxTick_Handler
            /\ Expired(t)
            /\ thr'[t].ret_val = osErrorTimeout

\* C13, the safety part
C13_Outcomes == [](C13_InList) /\ [][C13_Step]_vars

\* C13, the liveness part: a thread blocked with a finite timeout returns
C13_Returns ==
  \A t \in Threads : BlockedFinite(t) ~> thr[t].state = "ready"

\* C13: a thread that blocks in Wait returns with exactly one of the flag
\* word that satisfied it (woken by the walk of a Set or of the post
\* processing), osErrorResource (woken by Delete) or osErrorTimeout (its
\* timeout expired); with a finite timeout and a timer that keeps ticking
\* it returns eventually, and once it has returned it is not in the wait list
C13_BlockedReturns == C13_Outcomes /\ C13_Returns

\* the timeout of thread 1 has expired while thread 2 still waits
C13_Witness ==
  /\ Active /\ run.pc = "idle"
  /\ thr[1].state = "ready" /\ thr[1].ret_val = osErrorTimeout
  /\ ef.thread_list = <<2>> /\ BlockedFinite(2)


\* ---- C14 ----
\* the step is a Create that yields an object
NewStep == ef.state = "Inactive" /\ ef'.state = "Active"

\* the step is the end of a Delete that found an Active object
FreeStep ==
  run.pc \in {"delete_unblock", "delete_free"} /\ run'.pc = "idle"

\* a control block of the caller, large enough
OwnBlock(name) ==
  [given |-> TRUE, name |-> name, cb_mem |-> EfAddr, cb_size |-> CbSize]

\* a Delete right after a successful Create returns osOK and leaves the
\* object Inactive with no thread touched; memory of the caller that a Delete
\* has left can be passed to Create again
C14_Calls ==
  /\ (ThreadMode /\ ret.op = "New" /\ ret.val # NULL /\ ef.thread_list = <<>>)
       => LET d == DeleteInThread(ef, thr)
          IN /\ ef = NewObject(ef.flags, ef.name)
             /\ d.ret = osOK
             /\ d.ef = [ef EXCEPT !.state = "Inactive"]
             /\ d.thr = thr
  /\ (ThreadMode /\ ret = DeleteOK
        /\ ~cb_freed)
       => /\ CallerMemory
          /\ \A name \in {NULL, 1}, pool \in BOOLEAN :
               LET n == NewIn(ef, OwnBlock(name), pool, NULL)
               IN /\ n.ret = EfAddr
                  /\ n.asked = "none"
                  /\ n.ef.state = "Active"
                  /\ n.ef.event_flags = 0
                  /\ n.ef.thread_list = <<>>

\* a Create that yields an object takes the control block from the allocator
\* exactly when it marks the object as a system object, and the object is
\* Active with flag word 0 and an empty wait list; the end of a Delete frees
\* the control block exactly when the object is a system object, and leaves
\* the memory of the caller as it is
C14_Step ==
  /\ NewStep =>
       /\ ef' = NewObject(IF cb_freed THEN osRtxFlagSystemObject ELSE 0,
                          ef'.name)
       /\ ~cb_freed'
       /\ ret' = [op |-> "New", ctx |-> "thread", val |-> EfAddr,
                  evr |-> "Created"]
  /\ FreeStep =>
       /\ ret' = DeleteOK
       /\ ef'.state = "Inactive"
       /\ cb_freed' <=> (And(ef.flags, osRtxFlagSystemObject) # 0)
       /\ ~cb_freed' => (ef' = ef /\ ~cb_freed)

\* C14: Create followed immediately by Delete with no waiters succeeds in
\* both ownership modes; Delete frees the control block if and only if the
\* subsystem allocated it, never frees memory of the caller, and that memory
\* can be passed to a new Create, which again yields an Active object with
\* flag word 0 and an empty wait list.
C14_RoundTrip == [](C14_Calls) /\ [][C14_Step]_vars

\* a Create in memory of the caller that an earlier Delete has left
C14_Witness ==
  /\ ret = [op |-> "New", ctx |-> "thread", val |-> EfAddr,
            evr |-> "Created"]
  /\ ef = NewObject(0, NULL)
  /\ ThreadMode
  /\ thr[1].ret_val = osErrorResource

\* ---- C15 ----
\* attr names a control block that is not word-aligned or too small
BadBlock(attr) ==
  /\ attr.given
  /\ attr.cb_mem # NULL
  /\ (And(attr.cb_mem, 3) # 0 \/ attr.cb_size < CbSize)

\* whatever the memory holds, a Create with such a block returns NULL with
\* the invalid-control-block event, leaves the memory as it is and asks no
\* allocator
C15_Calls ==
  \A attr \in AttrInputs, pool \in BOOLEAN, alloc \in {NULL, EfAddr} :
    BadBlock(attr) =>
      NewIn(ef, attr, pool, alloc) =
        [ef |-> ef, ret |-> NULL, evr |-> "InvalidControlBlock",
         asked |-> "none"]

\* the call that records the invalid-control-block event returns NULL and
\* changes neither the memory nor the allocator
C15_Step ==
  (ret' # ret /\ ret'.evr = "InvalidControlBlock") =>
    /\ ret' = [op |-> "New", ctx |-> "thread", val |-> NULL,
               evr |-> "InvalidControlBlock"]
    /\ UNCHANGED <<ef, thr, cb_freed, run, isr_queue>>

\* C15: Create with a control block of the caller that is not word-aligned
\* or whose stated size is below the size of a control block fails with the
\* invalid-control-block error: it returns no object, writes nothing to the
\* memory and asks neither the pool nor the heap.
C15_InvalidControlBlock == [](C15_Calls) /\ [][C15_Step]_vars

\* such a Create has returned while an object lives in the control block
C15_Witness ==
  /\ ret.evr = "InvalidControlBlock"
  /\ ef.state = "Active"
  /\ ef.event_flags # 0

\* ---- C16 ----
\* C16: in every reachable state, after any sequence of Create, Set, Clear,
\* Wait, Delete and post-processing steps from thread and interrupt context,
\* bit 31 of the stored flag word is zero.
C16_Bit31Zero == And(ef.event_flags, Bit(osRtxEventFlagsLimit)) = 0

\* a Set with bit 31 in its flags has returned on an Active object that has
\* flags set
C16_Witness ==
  /\ ret.op = "Set"
  /\ ret.val = osErrorParameter
  /\ ef.state = "Active"
  /\ ef.event_flags # 0

\* ---- C17 ----
\* the claim as the spec states it: an Inactive object has an empty wait
\* list in every state, also during a Delete
C17_Original == ef.state = "Inactive" => ef.thread_list = <<>>

\* a Delete has marked the object Inactive and has not returned yet
DeleteInProgress ==
  run.pc \in {"delete_unblock", "delete_dispatch", "delete_free"}

\* C17: in every reachable state in which no Delete is in progress, an
\* object whose lifecycle state is Inactive has an empty wait list; a Delete
\* marks the object Inactive first and drains the wait list afterwards, so
\* an interrupt handler that preempts it can observe an Inactive object with
\* waiters still in the list.
C17_InactiveDrained ==
  (ef.state = "Inactive" /\ ~DeleteInProgress) => ef.thread_list = <<>>

\* an interrupt handler's call has returned after a Delete that drained two
\* waiters
C17_Witness ==
  /\ ef.state = "Inactive" /\ ~DeleteInProgress
  /\ ret.ctx = "isr"
  /\ \A t \in Threads :
       thr[t].state = "ready" /\ thr[t].ret_val = osErrorResource

\* ---- C18 ----
\* while a Delete is in progress the object is Inactive, and what an
\* interrupt handler calls then returns osErrorResource and changes nothing
C18_Calls ==
  DeleteInProgress =>
    /\ ef.state = "Inactive"
    /\ \A flags \in Masks :
         /\ SetInIsr(ef, thr, flags) =
              [ef |-> ef, thr |-> thr, ret |-> osErrorResource]
         /\ ClearIn(ef, flags) =
              [word |-> ef.event_flags, ret |-> osErrorResource]
         /\ \A options \in OptionInputs :
              WaitInIsr(ef, flags, options, 0) =
                [word |-> ef.event_flags, ret |-> osErrorResource]

\* the steps of a Delete in their order: the first marks the object Inactive
\* and nothing else; then each step wakes the first waiter of the list with
\* osErrorResource, until the list is empty; then the dispatch; then the
\* control block is freed if it is a system object; every other step in
\* between (a call of an interrupt handler) changes nothing
C18_Step ==
  /\ (ef.state = "Active" /\ ef'.state = "Inactive") =>
       /\ ef' = [ef EXCEPT !.state = "Inactive"]
       /\ run'.pc = "delete_unblock"
       /\ UNCHANGED <<thr, cb_freed, isr_queue>>
  /\ DeleteInProgress =>
       \/ /\ run.pc = "delete_unblock" /\ ef.thread_list # <<>>
          /\ ef' = [ef EXCEPT !.thread_list = Tail(ef.thread_list)]
          /\ \A t \in Threads :
               IF t = Head(ef.thread_list)
               THEN /\ thr[t].state = "blocked"
                    /\ thr'[t].state = "ready"
                    /\ thr'[t].ret_val = osErrorResource
               ELSE thr'[t] = thr[t]
          /\ run'.pc = IF Tail(ef.thread_list) = <<>>
                       THEN "delete_dispatch" ELSE "delete_unblock"
          /\ UNCHANGED cb_freed
       \/ /\ run.pc = "delete_dispatch" /\ run'.pc = "delete_free"
          /\ ef.thread_list = <<>>
          /\ UNCHANGED <<ef, thr, cb_freed>>
       \/ /\ FreeStep
          /\ ef.thread_list = <<>>
          /\ \A t \in Threads : thr[t].state # "blocked"
          /\ cb_freed' <=> (And(ef.flags, osRtxFlagSystemObject) # 0)
          /\ UNCHANGED thr
       \/ UNCHANGED <<ef, thr, cb_freed, run, isr_queue>>

Hit(word, m, o) == word # 0 /\ CondHolds(word, m, o)

\* the flag word that the check of such a waiter leaves
Left(word, m, o) ==
  IF Hit(word, m, o) /\ AutoClear(o) THEN And(word, Not32(m)) ELSE word

\* a Set with two threads a, b in the wait list, a ahead of b: a is checked
\* against the flag word the Set leaves and b against the word a leaves
C19_Calls ==
  (Active /\ ThreadMode /\ Len(ef.thread_list) = 2) =>
    \A flags \in Masks, ctx \in Contexts :
      LET a == ef.thread_list[1]
          b == ef.thread_list[2]
          s == SetIn(ctx, ef, thr, flags)
          word == Or(ef.event_flags, flags)
          worda == Left(word, thr[a].wait_flags, thr[a].flags_options)
          wordb == Left(worda, thr[b].wait_flags, thr[b].flags_options)
          hita == Hit(word, thr[a].wait_flags, thr[a].flags_options)
          hitb == Hit(worda, thr[b].wait_flags, thr[b].flags_options)
      IN /\ IF hita
            THEN s.thr[a].state = "ready" /\ s.thr[a].ret_val = word
            ELSE s.thr[a] = thr[a]
         /\ IF hitb
            THEN s.thr[b].state = "ready" /\ s.thr[b].ret_val = worda
            ELSE s.thr[b] = thr[b]
         /\ s.ef.event_flags = wordb
         /\ s.ef.thread_list =
              (IF hita THEN <<>> ELSE <<a>>) \o (IF hitb THEN <<>> ELSE <<b>>)

\* the list without its k-th thread
Without(list, k) == SubSeq(list, 1, k - 1) \o SubSeq(list, k + 1, Len(list))

\* a walk in progress
Walking == run.pc \in {"set_walk", "post_walk"}

\* a thread that blocks goes to the end of the wait list; a walk starts at
\* the head of the list and ends behind its last thread; each of its steps
\* checks the thread at its position against the flag word as it is then,
\* wakes and removes it or goes on to the next, and touches no other thread;
\* no other step changes the list during a walk
C19_Step ==
  /\ Len(ef'.thread_list) > Len(ef.thread_list) =>
       \E t \in Threads :
         /\ ef'.thread_list = Append(ef.thread_list, t)
         /\ thr[t].state = "ready" /\ thr'[t].state = "blocked"
  /\ (Walking' /\ run'.pc # run.pc) => run'.i = 1
  /\ (Walking /\ run'.pc # run.pc) => run.i > Len(ef.thread_list)
  /\ (Walking /\ ~WalkStep) =>
       /\ thr' = thr
       /\ ef'.thread_list = ef.thread_list
       /\ run'.pc = run.pc => run'.i = run.i
  /\ WalkStep =>
       LET t == ef.thread_list[run.i]
           m == thr[t].wait_flags
           o == thr[t].flags_options
       IN /\ \A u \in Threads \ {t} : thr'[u] = thr[u]
          /\ ef'.event_flags = Left(ef.event_flags, m, o)
          /\ IF Hit(ef.event_flags, m, o)
             THEN /\ thr'[t].state = "ready"
                  /\ thr'[t].ret_val = ef.event_flags
                  /\ ef'.thread_list = Without(ef.thread_list, run.i)
                  /\ run'.i = run.i
             ELSE /\ thr'[t] = thr[t]
                  /\ ef'.thread_list = ef.thread_list
                  /\ run'.i = run.i + 1

\* C19: the wait list is walked once per Set or post-processing run in
\* arrival order: of two blocked threads that ask for auto-clear on masks
\* that share the bits being set, the one that blocked earlier is checked
\* first, is woken and consumes the bits; the later one is woken in the same
\* walk only if its condition still holds against the flag word the earlier
\* one left, and stays blocked otherwise.
C19_FirstComeFirstServed == [](C19_Calls) /\ [][C19_Step]_vars

\* a Set has set the bit that two auto-clear waiters wait for, and its walk
\* is at the head of the list
C19_Witness ==
  /\ run.pc = "set_walk" /\ run.i = 1
  /\ ef.thread_list = <<1, 2>>
  /\ ef.event_flags = 1
  /\ \A t \in Threads :
       /\ thr[t].state = "blocked"
       /\ thr[t].wait_flags = 1
       /\ AutoClear(thr[t].flags_options)

\* ---- C20 ----
\* the step is one of the call, not of an interrupt handler
PrimStep == prim' # prim

\* the step at which the call takes effect
TakesEffect == prim.at = -1 /\ prim'.at # -1

\* a call in progress has taken effect once it is about to return; the value
\* it returns is the value of the indivisible operation on the flag word of
\* that instant, in either build; a caller that had the interrupts disabled
\* has them disabled all through the call, and PRIMASK at the return is
\* PRIMASK at the call
C20_Calls ==
  /\ prim.pc = "return" =>
       /\ prim.at # -1
       /\ prim.event_flags =
            PrimOp(prim.op, prim.at, prim.flags, prim.options).ret
       /\ cpu.primask = prim.entry
  /\ (prim.pc # "idle" /\ prim.entry = 1) => cpu.primask = 1
  /\ (prim.pc # "idle" /\ prim.exclusive) => cpu.primask = prim.entry

\* the call takes effect in one step: the flag word after that step is the
\* word of the indivisible operation on the word before it; no other step of
\* the call changes the word; the return passes the value on and leaves
\* PRIMASK
C20_Step ==
  /\ TakesEffect =>
       /\ prim'.at = ef.event_flags
       /\ ef'.event_flags =
            PrimOp(prim.op, ef.event_flags, prim.flags, prim.options).word
  /\ (PrimStep /\ ~TakesEffect) => ef'.event_flags = ef.event_flags
  /\ (prim.pc = "return" /\ PrimStep) =>
       /\ ret'.val = prim.event_flags
       /\ ret'.op = prim.op
       /\ cpu' = cpu
  /\ (~PrimStep /\ ef' # ef) => cpu.primask = 0

\* C20: the build that masks the interrupts and the build with the
\* exclusive-access retry loop are observably equivalent for Set, Clear and
\* Check: for every starting flag word, every argument and every
\* interleaving with interrupt handlers that change the same flag word, both
\* give the return value and the flag word of one indivisible operation, and
\* with masking the interrupt-enable state after the call is the one before
\* it (interrupts that were disabled stay disabled).
C20_Strategies == [](C20_Calls) /\ [][C20_Step]_vars

\* a call of the masking build, made with the interrupts disabled, is about
\* to return after it has changed the flag word
C20_Witness ==
  /\ prim.pc = "return"
  /\ ~prim.exclusive
  /\ prim.entry = 1
  /\ prim.at # ef.event_flags

\* ---- C21 ----
\* the claim as the spec states it: Check returns 0 exactly when the
\* condition does not hold, the empty mask included
C21_Original ==
  \A flags \in Masks, options \in OptionInputs :
    EventFlagsCheck(ef.event_flags, flags, options).ret = 0
      <=> ~CondHolds(ef.event_flags, flags, options)

\* for the check, the Wait of a thread and the Wait of an interrupt handler
\* on any flags in any state
C21_Check ==
  \A flags \in Masks, options \in OptionInputs :
    LET c == EventFlagsCheck(ef.event_flags, flags, options)
        hit == Hit(ef.event_flags, flags, options)
    IN /\ c.ret = 0 <=> ~hit
       /\ c.ret # 0 => c.ret = ef.event_flags
       /\ Active =>
            /\ WaitInIsr(ef, flags, options, 0).ret =
                 IF hit THEN ef.event_flags ELSE osErrorResource
            /\ \A t \in WaitCallers \ {NULL} :
                 LET w == WaitInThread(ef, t, flags, options, osWaitForever)
                 IN /\ w.block <=> ~hit
                    /\ hit => w.ret = ef.event_flags

\* on every step of a walk: the thread at the position of the walk is woken
\* exactly when its condition holds on a flag word that is not 0, with the
\* flag word as it is before the auto-clear
C21_Step ==
  WalkStep =>
    LET t == ef.thread_list[run.i]
        hit == Hit(ef.event_flags, thr[t].wait_flags, thr[t].flags_options)
    IN /\ thr'[t].state = "ready" <=> hit
       /\ hit => thr'[t].ret_val = ef.event_flags

\* C21: for every flag word, every mask below 2^31 (the empty mask 0
\* included) and every option combination, Check returns 0 if and only if
\* the wait condition does not hold or the flag word is 0, and otherwise the
\* whole flag word as it was before any auto-clear; a Wait or a walk of the
\* wait list treats the condition as satisfied exactly when it holds on a
\* flag word that is not 0.
C21_CheckValue == [](C21_Check) /\ [][C21_Step]_vars

\* a walk has passed a thread that waits for all of the empty mask on the
\* flag word 0
C21_Witness ==
  /\ run.pc = "set_walk" /\ run.i = 2
  /\ ef.event_flags = 0
  /\ ef.thread_list = <<1>>
  /\ thr[1].state = "blocked" /\ thr[1].wait_flags = 0
  /\ WaitAll(thr[1].flags_options)

\* ---- C22 ----
\* no operation in progress and no post processing pending
Quiet == run.pc = "idle" /\ isr_queue = 0

\* the claim as the spec states it: at rest, no thread of the wait list has
\* a wait condition that holds on the flag word
C22_Original ==
  (Active /\ Quiet) =>
    \A k \in 1 .. Len(ef.thread_list) :
      LET t == ef.thread_list[k]
      IN ~CondHolds(ef.event_flags, thr[t].wait_flags, thr[t].flags_options)

\* the wait condition of the Wait in progress, between its check and the
\* insertion of the thread into the wait list
WaitPending ==
  /\ run.pc = "wait_enter"
  /\ Hit(ef.event_flags, run.flags, run.options)

\* C22: no wakeup is lost: in every reachable state in which no operation is
\* in progress and no post processing is pending for an Active object, no
\* thread of the wait list has a wait condition that holds on the flag word,
\* unless the flag word is 0 (a thread that waits for all flags of the empty
\* mask stays blocked on the word 0); and when the flags a thread-context
\* Wait asked for have been set between its failed check and the insertion
\* of the thread into the wait list, a post-processing run is pending, which
\* wakes the thread.
C22_NoLostWakeup ==
  /\ (Active /\ Quiet) =>
       \A k \in 1 .. Len(ef.thread_list) :
         LET t == ef.thread_list[k]
         IN ~Hit(ef.event_flags, thr[t].wait_flags, thr[t].flags_options)
  /\ WaitPending => isr_queue > 0
  /\ (Active /\ run.pc = "idle") =>
       \A k \in 1 .. Len(ef.thread_list) :
         LET t == ef.thread_list[k]
         IN Hit(ef.event_flags, thr[t].wait_flags, thr[t].flags_options)
              => isr_queue > 0

\* a Set of an interrupt handler has preempted a Wait after its check and
\* has set the flags it waits for
C22_Witness ==
  /\ WaitPending
  /\ isr_queue > 0
  /\ run.timeout # 0

\* ---- C23 ----
\* a Set of a thread, run from its call to its return with no interrupt in
\* between: the value it returns is the flag word it leaves, which Get reads
C23_Calls ==
  (Active /\ ThreadMode) =>
    \A flags \in Masks :
      LET s == SetInThread(ef, thr, flags)
      IN /\ s.ret = s.ef.event_flags
         /\ s.ret = GetValue(s.ef)

\* the value to return follows the flag word
InStep == run.event_flags = ef.event_flags

\* step by step: the call leaves the value to return equal to the flag word;
\* a step of the walk keeps them equal; they differ at the return only if a
\* call of an interrupt handler has changed the flag word during the walk;
\* the return passes the value on
C23_Step ==
  /\ (run.pc = "idle" /\ run'.pc = "set_walk") => InStep'
  /\ (svcRtxEventFlagsSet_Walk /\ InStep) => InStep'
  /\ (run.pc = "set_walk" /\ run'.pc = "set_walk" /\ InStep /\ ~InStep') =>
       /\ run' = run
       /\ ret'.ctx = "isr" \/ ret' = RetOff
  /\ (run.pc = "set_walk" /\ run'.pc = "idle") =>
       /\ ef' = ef
       /\ ret' = RetOff \/ ret'.val = run.event_flags

\* C23: when no interrupt-context operation on the object interleaves with
\* the call, the value that a successful thread-context Set returns is the
\* flag word at the moment the call returns (what Get would return right
\* after), for any number of woken waiters with any mix of wait-all or
\* wait-any and auto-clear or no-clear.
C23_SetReturnsWord == [](C23_Calls) /\ [][C23_Step]_vars

\* the walk of a Set has woken two threads that asked for auto-clear, the
\* first with 5 and the second with what the first left; the Set is about to
\* return the flag word, 0
C23_Witness ==
  /\ run.pc = "set_walk" /\ ef.thread_list = <<>>
  /\ InStep /\ ef.event_flags = 0
  /\ thr[1].state = "ready" /\ thr[1].ret_val = 5
  /\ thr[2].state = "ready" /\ thr[2].ret_val = 4

\* ---- C24 ----
\* the callback of osRtxEventFlagsPostProcess is taken off the queue
PostStep == isr_queue' = isr_queue - 1

\* the waiters Delete has released and that have not run since
Released ==
  {t \in Threads : thr[t].state = "ready" /\ thr[t].ret_val = osErrorResource}

\* C24: the deferred post-processing of an object that is Inactive when the
\* callback runs, the handler's Set having registered it before Delete
\* completed, does nothing: it wakes no thread, removes nothing from the wait
\* list, leaves the flag word unchanged and returns at once, so each waiter
\* Delete released keeps osErrorResource
C24_Step ==
  (PostStep /\ ef.state = "Inactive") =>
    /\ ef' = ef
    /\ thr' = thr
    /\ run'.pc = "idle"
    /\ \A t \in Released : thr'[t].ret_val = osErrorResource

\* no walk of the post-processing runs on an Inactive object
C24_NoWalk == run.pc = "post_walk" => Active

C24_InactivePostProcess == [](C24_NoWalk) /\ [][C24_Step]_vars

\* Delete has completed with the registration of the handler's Set still
\* queued: the object is Inactive, its word holds the flags the handler set,
\* a waiter Delete released has not run yet and the callback is about to run
C24_Witness ==
  /\ run.pc = "idle"
  /\ isr_queue > 0
  /\ ef.id = osRtxIdEventFlags
  /\ ef.state = "Inactive"
  /\ ret = DeleteOK
  /\ ef.event_flags # 0
  /\ Released # {}

====
